---- MODULE Spec2Model ----
(***************************************************************************)
(* NewsApp: the concurrent fetch / merge / dedupe pipeline                 *)
(* (src/src/api/__init__.py, NewsHandler) and the SQLite article cache     *)
(* (src/src/cache/__init__.py, CacheManager).                              *)
(*                                                                         *)
(* Encoding of Python values                                               *)
(*   str            a TLA+ string                                          *)
(*   Optional[T]    None is <<>>, a present value v is <<v>>               *)
(*   datetime       a number of clock ticks (TicksPerSec ticks per second) *)
(*   list           a sequence                                             *)
(*   dict (config)  a record; a selectors dict is a sequence of <<k, v>>   *)
(***************************************************************************)
EXTENDS Integers, Sequences, FiniteSets, TLC

VARIABLES
    \* ---- NewsHandler.fetch_category: one call and its per-source tasks
    pc,         \* "idle" | "gathering" | "returned" | "raised"
    feeds,      \* argument feeds
    scraping,   \* argument scraping
    category,   \* argument category
    limit,      \* argument limit_per_source
    tasks,      \* the coroutines appended to `tasks`, in submission order
    tstate,     \* per task: "pending" | "inflight" | "silent" | "done"
    tfailed,    \* per task: TRUE iff its source failed (see SourceFailure)
    tout,       \* per task: None or <<what the coroutine returned or raised>>
    results,    \* the list asyncio.gather fills: None or <<outcome>> per slot
    reordered,  \* TRUE iff some task finished before a task submitted earlier
    gets,       \* number of HTTP GETs issued by the call
    ret,        \* the list fetch_category returned
    \* ---- CacheManager: the articles table, the clock, the last calls
    table,      \* the rows of the articles table (at most one per id)
    now,        \* the reading of datetime.utcnow(), in ticks
    lastSaved,  \* the batch of the save_articles that was the previous call, else <<>>
    gotArgs,    \* <<the arguments of the get_articles that was the last call>>, else None
    got,        \* the list that the last get_articles / get_bookmarked_articles returned
    call,       \* the most recent CacheManager call: its name and its arguments
    \* ---- NewsAppUI._load_category: one load and the task that runs it
    lpc,        \* "idle" | "fetching" | "hit" | "missed" | "failed"
    lcategory,  \* argument category
    lret,       \* the list the task of the load returned
    uiArticles, \* self.articles of the UI
    \* ---- fetch_from_rss applied to one parsed feed
    pentries,   \* parsed.entries of the feed
    pnodes,     \* the nodes of the page that is scraped on its own
    pselector,  \* argument selector
    plimit,     \* argument limit
    particles,  \* the articles built from them
    \* ---- calls of _fetch_text on one NewsHandler
    external,   \* a session was supplied to the constructor
    extOpen,    \* the supplied session is open
    hcalls,     \* per call: position, session, GETs issued, outcome, result
    \* ---- one call of save_articles, statement by statement
    spc,        \* "idle" | "looping" | "returned" | "raised"
    sbatch,     \* argument articles
    sidx,       \* the articles whose INSERT was executed
    sconn,      \* the rows as the connection sees them (uncommitted included)
    sbefore,    \* the rows the connection saw when the call started
    sdisk,      \* the committed rows
    \* ---- several _load_category requests on one event loop
    loads,      \* the requests in the order they were made, each with the
                \* position of its fetch() task and its update() task
    running,    \* the request whose coroutine holds the event loop (0: none)
    doneQ,      \* the requests whose task is done and whose update() is due,
                \* in the order the event loop will resume them
    rtable,     \* the rows of the cache
    selfArticles, \* self.articles
    shownReq,   \* the request whose update() assigned self.articles last
    \* ---- view navigation of NewsAppUI
    current_view,  \* self.current_view
    settingsMounted, \* a SettingsView is mounted in #main-container
    backQ,      \* BackToDashboardMessages posted and not yet handled
    shows,      \* calls of _show_settings so far
    presses,    \* presses of the Back button so far
    handled,    \* BackToDashboardMessages handled so far
    reloads,    \* _load_category calls made by _show_dashboard
    \* ---- ConfigManager and the SettingsView that edits it
    cfgFeeds,   \* news.rss_feeds, in insertion order
    setOpen,    \* a SettingsView is mounted
    setCategory, \* SettingsView.current_category
    feedInputs, \* SettingsView.feed_inputs: name and value of each Input
    addPresses, \* presses of 'Add Feed' so far
    qcat,       \* argument of the last get_feeds_for_category call made
                \* since the feeds last changed ("" if none)
    qfeeds,     \* what it returned
    qfetch,     \* outcome of fetch_category on that list, when it is empty
    \* ---- keys and buttons of NewsAppUI (with current_view above)
    article_view_mode, \* self.article_view_mode
    state_category, \* self.state.current_category
    viewing,    \* the category the user selected last (US after on_mount)
    loadArg,    \* the argument of the last _load_category call
    event,      \* the event handled last: its kind and its key or button id
    loadStarted, \* the handler of that event called _load_category
    articlesCount, \* len(self.articles)
    updates,    \* update() coroutines created and not yet run
    panel,      \* what #articles-panel holds, "absent" when it is not in the DOM
    panelMiss   \* an update() queried #articles-panel while it was absent

fetchVars == <<pc, feeds, scraping, category, limit, tasks, tstate, tfailed,
               tout, results, reordered, gets, ret>>
cacheVars == <<table, now, lastSaved, gotArgs, got, call>>
loadVars == <<lpc, lcategory, lret, uiArticles>>
parseVars == <<pentries, pnodes, pselector, plimit, particles>>
httpVars == <<external, extOpen, hcalls>>
saveVars == <<spc, sbatch, sidx, sconn, sbefore, sdisk>>
coreVars == <<fetchVars, cacheVars, loadVars, parseVars>>
raceVars == <<loads, running, doneQ, rtable, selfArticles, shownReq>>
viewVars == <<current_view, settingsMounted, backQ, shows, presses, handled, reloads>>
cfgVars == <<cfgFeeds, setOpen, setCategory, feedInputs, addPresses, qcat, qfeeds, qfetch>>
keyVars == <<article_view_mode, state_category, viewing, loadArg, event,
             loadStarted, articlesCount, updates, panel, panelMiss>>
auxVars == <<httpVars, saveVars, raceVars, viewVars, cfgVars, keyVars>>
notHttp == <<saveVars, raceVars, viewVars, cfgVars, keyVars>>
notSave == <<httpVars, raceVars, viewVars, cfgVars, keyVars>>
notRace == <<httpVars, saveVars, viewVars, cfgVars, keyVars>>
notView == <<httpVars, saveVars, raceVars, cfgVars, keyVars>>
notCfg == <<httpVars, saveVars, raceVars, viewVars, keyVars>>
notKeys == <<httpVars, saveVars, raceVars, cfgVars, settingsMounted, backQ,
             shows, presses, handled, reloads>>
vars == <<fetchVars, cacheVars, loadVars, parseVars, auxVars>>

(***************************************************************************)
(* Bounds of the model.                                                    *)
(***************************************************************************)
MaxFeeds   == 2     \* feed sources per call
MaxScrapes == 1     \* scrape sources per call
MaxLimit   == 2     \* limit_per_source ranges over 1..MaxLimit
MaxElapsed == 2     \* ticks the clock advances in a behaviour
ParseLen   == 2     \* entries of the feed that is parsed on its own

\* the scale of the clock: ticks per second (the resolution of utcnow),
\* seconds per hour, hours per day, and the reading at construction
TicksPerSec == 2
SecsPerHour == 1
HoursPerDay == 2
StartTime   == 60

(***************************************************************************)
(* Python helpers.                                                         *)
(***************************************************************************)
None == <<>>
Some(v) == <<v>>
IsNone(o) == o = <<>>
Val(o) == o[1]

Min(a, b) == IF a < b THEN a ELSE b

\* s[:n]
Trunc(s, n) == SubSeq(s, 1, Min(Len(s), n))

\* truthiness of an Optional[str]: None and '' are falsy
TruthyStr(o) == ~IsNone(o) /\ Val(o) # ""

\* a or b, on Optional[str]
OrElse(a, b) == IF TruthyStr(a) THEN a ELSE b

\* str(x) for an Optional[str]: str(None) is 'None'
PyStr(o) == IF IsNone(o) THEN "None" ELSE Val(o)

\* dict.get(key, default) on an Optional[str] field
GetOr(o, default) == IF IsNone(o) THEN default ELSE Val(o)

\* s.rstrip('/')
RECURSIVE RStripSlash(_)
RStripSlash(s) ==
    IF Len(s) > 0 /\ SubSeq(s, Len(s), Len(s)) = "/"
    THEN RStripSlash(SubSeq(s, 1, Len(s) - 1))
    ELSE s

\* s.startswith('/')
StartsWithSlash(s) == Len(s) > 0 /\ SubSeq(s, 1, 1) = "/"

Digits == <<"1", "2", "3", "4", "5", "6", "7", "8", "9">>

(***************************************************************************)
(* models.py                                                               *)
(***************************************************************************)
\* Category: member name |-> value
CategoryEnum ==
    [BREAKING |-> "breaking", AGENTIC_AI_DEV |-> "agentic_ai_dev",
     AGENTIC_AI_BUS |-> "agentic_ai_business", US |-> "us", WORLD |-> "world",
     TECH |-> "tech", BUSINESS |-> "business", DEALS |-> "deals",
     SPORTS |-> "sports", ENTERTAINMENT |-> "entertainment",
     SCIENCE |-> "science", MANUFACTURING |-> "manufacturing",
     LIFE_SCIENCES |-> "life_sciences", AUTOMOTIVE |-> "automotive",
     AVIATION |-> "aviation", ECOMMERCE |-> "ecommerce",
     AGENTIC_AI |-> "agentic_ai"]

\* member.value
CategoryValue(member) == CategoryEnum[member]

\* Category(value): the member with this value
CategoryOf(value) == CHOOSE m \in DOMAIN CategoryEnum : CategoryEnum[m] = value

\* the members the model passes around
Categories == {"TECH", "BUSINESS"}

\* Article(...) with the dataclass defaults for the fields not given
Article(id, headline, summary, source, cat, url, author, published_at) ==
    [id |-> id, headline |-> headline, summary |-> summary, source |-> source,
     category |-> cat, url |-> url, author |-> author,
     published_at |-> published_at, image_url |-> None, content |-> None,
     read_time_minutes |-> None, tags |-> <<>>,
     is_read |-> FALSE, is_bookmarked |-> FALSE, cached_at |-> None]

(***************************************************************************)
(* What the network and the parsing libraries hand to the code.            *)
(*                                                                         *)
(* A response body is described by what the two parsers extract from it:   *)
(* feedparser.parse gives `bozo` and `entries`; BeautifulSoup gives the    *)
(* nodes, each with the selector it matches.                               *)
(***************************************************************************)
Entry(id, link, title) ==
    [id |-> id, link |-> link, title |-> title, summary |-> None,
     description |-> None, author |-> None, published_parsed |-> None]

\* the feed entries of the model: two entries that both get the id "a"
\* (one by its id, one by its link) and one that gets the id "b"
EntryA1 == Entry(Some("a"), Some("http://x/a"), Some("Title a1"))
EntryA2 == Entry(None, Some("a"), Some("Title a2"))
EntryB == Entry(None, Some("b"), Some("Title b"))

Node(matches, name, href, text, child) ==
    [matches |-> matches, name |-> name, href |-> href, text |-> text,
     child |-> child]

\* the HTML nodes of the model: an anchor whose href is the feed id "a",
\* a block with a relative link, and a block with no link
NodeA == Node({".story", "h2"}, "a", Some("a"), "Story a", None)
NodeRel == Node({".story"}, "div", None, "", Some([href |-> Some("/p"), text |-> "Story p"]))
NodeNoLink == Node({".story"}, "div", None, "", None)

Text(empty, bozo, entries, nodes) ==
    [empty |-> empty, bozo |-> bozo, entries |-> entries, nodes |-> nodes]

EmptyText == Text(TRUE, FALSE, <<>>, <<>>)

\* a body from which feedparser recovers nothing
MalformedText == Text(FALSE, TRUE, <<>>, <<>>)

\* bodies a feed URL may serve
FeedTexts ==
    {Text(FALSE, FALSE, es, <<>>) :
        es \in {<<>>, <<EntryA1, EntryA2>>, <<EntryB, EntryA2>>, <<EntryB>>}}
    \cup {MalformedText, EmptyText}

\* bodies a scraped page may serve
HtmlTexts ==
    {Text(FALSE, FALSE, <<>>, ns) :
        ns \in {<<>>, <<NodeNoLink, NodeA>>, <<NodeA, NodeRel>>}}
    \cup {EmptyText}

Response(kind, status, text) == [kind |-> kind, status |-> status, text |-> text]

\* the bodies an error status carries in the model: those with two items
ErrorBodies(texts) == {t \in texts : Len(t.entries) + Len(t.nodes) = 2}

\* what one GET can observe: a status and a body, a timeout, a network error
Responses(texts) ==
    {Response("http", 200, t) : t \in texts}
    \cup {Response("http", 500, t) : t \in ErrorBodies(texts)}
    \cup {Response("timeout", 0, EmptyText), Response("neterr", 0, EmptyText)}

\* selectors soupsieve accepts; any other selector makes select() raise
ValidSelectors == {".story", "h2", "headline"}

(***************************************************************************)
(* NewsHandler (api/__init__.py)                                           *)
(***************************************************************************)
HeadlineMax == 300
SummaryMax == 1000

\* _fetch_text: the body for status 200, None for every other outcome
\* (non-200 returns None; every exception is caught and returns None)
FetchTextNoStatusCheck(resp) ==
    IF resp.kind = "http" THEN Some(resp.text) ELSE None

FetchText(resp) ==
    IF resp.kind = "http" /\ resp.status = 200 THEN Some(resp.text) ELSE None

\* `not text`
NoText(t) == IsNone(t) \/ Val(t).empty

\* the Article built from one feed entry (lines 52-68)
\* a parser that prefers the link to the id
ArticleOfEntryLinkFirst(entry, source_name, cat) ==
    Article(PyStr(OrElse(OrElse(entry.link, entry.id), entry.title)),
            Trunc(GetOr(entry.title, ""), HeadlineMax),
            Trunc(Val(OrElse(OrElse(entry.summary, entry.description), Some(""))), SummaryMax),
            source_name,
            cat,
            GetOr(entry.link, ""),
            entry.author,
            entry.published_parsed)

ArticleOfEntry(entry, source_name, cat) ==
    Article(PyStr(OrElse(OrElse(entry.id, entry.link), entry.title)),
            Trunc(GetOr(entry.title, ""), HeadlineMax),
            Trunc(Val(OrElse(OrElse(entry.summary, entry.description), Some(""))), SummaryMax),
            source_name,
            cat,
            GetOr(entry.link, ""),
            entry.author,
            entry.published_parsed)

Result(kind, articles) == [kind |-> kind, articles |-> articles]

\* a parser that drops the entries without a title
FetchFromRssSkipUntitled(resp, source_name, cat, lim) ==
    LET text == FetchText(resp) IN
    IF NoText(text) THEN Result("ok", <<>>)
    ELSE LET entries == SelectSeq(Trunc(Val(text).entries, lim),
                                  LAMBDA e : ~IsNone(e.title))
         IN  Result("ok", [k \in 1..Len(entries) |->
                              ArticleOfEntry(entries[k], source_name, cat)])

\* fetch_from_rss, given the response its GET observes
FetchFromRss(resp, source_name, cat, lim) ==
    LET text == FetchText(resp) IN
    IF NoText(text) THEN Result("ok", <<>>)
    ELSE LET entries == Trunc(Val(text).entries, lim)
         IN  Result("ok", [k \in 1..Len(entries) |->
                              ArticleOfEntry(entries[k], source_name, cat)])

\* a = el.find('a') if el.name != 'a' else el
AnchorOf(el) ==
    IF el.name = "a" THEN Some([href |-> el.href, text |-> el.text]) ELSE el.child

\* `not a or not a.get('href')`
NoLink(el) == IsNone(AnchorOf(el)) \/ ~TruthyStr(Val(AnchorOf(el)).href)

\* href normalisation (lines 92-95)
ResolveHref(url, href) ==
    IF StartsWithSlash(href) THEN RStripSlash(url) \o href ELSE href

\* a scraper that hands out its articles marked as read
ArticleOfNodeMarkedRead(el, url, source_name, cat) ==
    LET a == Val(AnchorOf(el))
        href == ResolveHref(url, Val(a.href))
    IN  [Article(href, Trunc(a.text, HeadlineMax), "(scraped)", source_name,
                 cat, href, None, None) EXCEPT !.is_read = TRUE]

ArticleOfNode(el, url, source_name, cat) ==
    LET a == Val(AnchorOf(el))
        href == ResolveHref(url, Val(a.href))
    IN  Article(href, Trunc(a.text, HeadlineMax), "(scraped)", source_name,
                cat, href, None, None)

\* fetch_from_scrape, given the response its GET observes; an invalid
\* selector makes soup.select raise out of the coroutine
FetchFromScrape(resp, url, selector, source_name, cat, lim) ==
    LET text == FetchText(resp) IN
    IF NoText(text) THEN Result("ok", <<>>)
    ELSE IF selector \notin ValidSelectors THEN Result("exc", <<>>)
    ELSE LET selected == SelectSeq(Val(text).nodes, LAMBDA n : selector \in n.matches)
             linked == SelectSeq(Trunc(selected, lim), LAMBDA n : ~NoLink(n))
         IN  Result("ok", [k \in 1..Len(linked) |->
                              ArticleOfNode(linked[k], url, source_name, cat)])

(***************************************************************************)
(* fetch_category: the arguments the model passes                          *)
(***************************************************************************)
Feed(k) == [name |-> Some("feed" \o Digits[k]), url |-> "http://feed" \o Digits[k]]

\* the shapes of a scrape source's 'selectors': a dict (a sequence of
\* <<key, value>> in insertion order), a str, or absent
SelDict(items) == [type |-> "dict", items |-> items, str |-> ""]
SelStr(str) == [type |-> "str", items |-> <<>>, str |-> str]
SelNone == [type |-> "none", items |-> <<>>, str |-> ""]

SelectorShapes ==
    {SelDict(<<>>), SelDict(<<<<"h2", ".story">>>>), SelStr(".story"),
     SelStr("[["), SelNone}

Scrape(k, selectors) ==
    [name |-> Some("scrape" \o Digits[k]), url |-> "http://scrape" \o Digits[k] \o "/",
     selectors |-> selectors]

FeedLists == {[k \in 1..n |-> Feed(k)] : n \in 0..MaxFeeds}

ScrapeLists ==
    UNION {{[k \in 1..n |-> Scrape(k, shapes[k])] : shapes \in [1..n -> SelectorShapes]}
           : n \in 0..MaxScrapes}

(***************************************************************************)
(* fetch_category: building the tasks (lines 109-121)                      *)
(***************************************************************************)
Task(kind, url, selector, name, cat, lim) ==
    [kind |-> kind, url |-> url, selector |-> selector, name |-> name,
     category |-> cat, limit |-> lim]

\* lines 113-119: the selector of a scrape source, None when it has none.
\* For a dict it is next(iter(selector.keys()), None): the first KEY.
ScrapeSelector(selectors) ==
    IF selectors.type = "dict"
    THEN IF Len(selectors.items) > 0 THEN Some(selectors.items[1][1]) ELSE None
    ELSE IF selectors.type = "str" THEN Some(selectors.str)
    ELSE None

RssTasks(fs, cat, lim) ==
    [k \in 1..Len(fs) |-> Task("rss", fs[k].url, "", GetOr(fs[k].name, "rss"), cat, lim)]

\* `if sel:` drops the sources whose selector is None or ''
ScrapeTasks(ss, cat, lim) ==
    LET usable == SelectSeq(ss, LAMBDA s : TruthyStr(ScrapeSelector(s.selectors)))
    IN  [k \in 1..Len(usable) |->
            Task("scrape", usable[k].url, Val(ScrapeSelector(usable[k].selectors)),
                 GetOr(usable[k].name, "scrape"), cat, lim)]

BuildTasksScrapeFirst(fs, ss, cat, lim) ==
    ScrapeTasks(ss, cat, lim) \o RssTasks(fs, cat, lim)

BuildTasks(fs, ss, cat, lim) ==
    RssTasks(fs, cat, lim) \o ScrapeTasks(ss, cat, lim)

\* the coroutine of one task, run on the response its GET observes
RunTask(t, resp) ==
    IF t.kind = "rss"
    THEN FetchFromRss(resp, t.name, t.category, t.limit)
    ELSE FetchFromScrape(resp, t.url, t.selector, t.name, t.category, t.limit)

TaskResponses(t) == IF t.kind = "rss" THEN Responses(FeedTexts) ELSE Responses(HtmlTexts)

\* the source of a task failed: timeout, network error, non-200 status, a
\* body from which nothing is recovered, or an exception raised in the task
SourceFailure(resp, outcome) ==
    \/ resp.kind \in {"timeout", "neterr"}
    \/ resp.status # 200
    \/ resp.text.bozo /\ resp.text.entries = <<>>
    \/ outcome.kind = "exc"

(***************************************************************************)
(* asyncio.gather over the tasks, return_exceptions=True  (line 123)       *)
(***************************************************************************)
\* the keyword argument of the call
ReturnExceptionsOff == FALSE

ReturnExceptions == TRUE

\* gather puts the outcome of the i-th awaitable in the i-th slot of its
\* result list, whatever the rank at which the task finished
GatherStoreByRank(rs, i, r, rank) == [rs EXCEPT ![rank] = Some(r)]

GatherStore(rs, i, r, rank) == [rs EXCEPT ![i] = Some(r)]

NumDone(ts) == Cardinality({i \in 1..Len(ts) : ts[i] = "done"})

AllDone(ts) == \A i \in 1..Len(ts) : ts[i] = "done"

SomeRaised(rs) == \E i \in 1..Len(rs) : ~IsNone(rs[i]) /\ Val(rs[i]).kind = "exc"

\* the await on gather completes when every task has finished; without
\* return_exceptions it also completes as soon as one task has raised
GatherSettledOnFirst(ts, rs) == Len(ts) = 0 \/ \E i \in 1..Len(ts) : ts[i] = "done"

GatherSettled(ts, rs) ==
    IF ReturnExceptions THEN AllDone(ts) ELSE AllDone(ts) \/ SomeRaised(rs)

\* the await on gather raises only without return_exceptions
GatherRaisesOnEmpty(ts, rs) ==
    Len(ts) = 0 \/ (~ReturnExceptions /\ SomeRaised(rs))

GatherRaises(ts, rs) == ~ReturnExceptions /\ SomeRaised(rs)

(***************************************************************************)
(* fetch_category: the merge loop (lines 124-135)                          *)
(***************************************************************************)
\* for a in r: skip a when a.id is in seen, else add its id and append it
RECURSIVE MergeOneLastWins(_, _, _)
MergeOneLastWins(acc, r, k) ==
    IF k > Len(r) THEN acc
    ELSE MergeOneLastWins(
             [articles |-> Append(SelectSeq(acc.articles, LAMBDA b : b.id # r[k].id), r[k]),
              seen |-> acc.seen \cup {r[k].id}], r, k + 1)

RECURSIVE MergeOneBreak(_, _, _)
MergeOneBreak(acc, r, k) ==
    IF k > Len(r) THEN acc
    ELSE IF r[k].id \in acc.seen THEN acc
    ELSE MergeOneBreak([articles |-> Append(acc.articles, r[k]),
                        seen |-> acc.seen \cup {r[k].id}], r, k + 1)

RECURSIVE MergeOne(_, _, _)
MergeOne(acc, r, k) ==
    IF k > Len(r) THEN acc
    ELSE IF r[k].id \in acc.seen THEN MergeOne(acc, r, k + 1)
    ELSE MergeOne([articles |-> Append(acc.articles, r[k]),
                   seen |-> acc.seen \cup {r[k].id}], r, k + 1)

\* for r in results: skip r when it is an exception, else merge its articles
RECURSIVE MergeLoop(_, _, _)
MergeLoop(acc, rs, i) ==
    IF i > Len(rs) THEN acc
    ELSE IF IsNone(rs[i]) \/ Val(rs[i]).kind = "exc" THEN MergeLoop(acc, rs, i + 1)
    ELSE MergeLoop(MergeOne(acc, Val(rs[i]).articles, 1), rs, i + 1)

MergeResults(rs) == MergeLoop([articles |-> <<>>, seen |-> {}], rs, 1).articles

(***************************************************************************)
(* The cache state at construction (CacheManager.__init__)                 *)
(***************************************************************************)
\* a CacheManager call: the method, the arguments the model varies, and
\* the number of rows its UPDATE or DELETE statement changed
Call(op, id, value, lim, days, rowcount) ==
    [op |-> op, id |-> id, value |-> value, limit |-> lim, days |-> days,
     rowcount |-> rowcount]

NoCall == Call("", "", FALSE, 0, 0, 0)

CacheInit ==
    /\ table = {}
    /\ now = StartTime
    /\ lastSaved = <<>>
    /\ gotArgs = None
    /\ got = <<>>
    /\ call = NoCall

(***************************************************************************)
(* fetch_category as a state machine                                       *)
(***************************************************************************)
FetchInit ==
    /\ pc = "idle"
    /\ feeds = <<>>
    /\ scraping = <<>>
    /\ category = "TECH"
    /\ limit = 1
    /\ tasks = <<>>
    /\ tstate = <<>>
    /\ tfailed = <<>>
    /\ tout = <<>>
    /\ results = <<>>
    /\ reordered = FALSE
    /\ gets = 0
    /\ ret = <<>>

\* NewsAppUI.__init__: no load is running, self.articles = []
LoadInit ==
    /\ lpc = "idle"
    /\ lcategory = "TECH"
    /\ lret = <<>>
    /\ uiArticles = <<>>

\* no feed has been parsed
ParseInit ==
    /\ pentries = <<>>
    /\ pnodes = <<>>
    /\ pselector = ""
    /\ plimit = 0
    /\ particles = <<>>

\* the calls of _fetch_text the model follows
MaxCalls == 2

\* one call of _fetch_text: its position, the session it uses, whether the
\* session it created is open, the GETs it issued, what the GET observed,
\* the value it returns
HttpCall(p, session, open, g, resp, r) ==
    [pc |-> p, session |-> session, open |-> open, gets |-> g, resp |-> resp, ret |-> r]

NoResp == [kind |-> "none", status |-> 0, text |-> [empty |-> TRUE, bozo |-> FALSE,
                                                     entries |-> <<>>, nodes |-> <<>>]]

\* NewsHandler(): no session supplied, no call of _fetch_text started
HttpInit ==
    /\ external = FALSE
    /\ extOpen = TRUE
    /\ hcalls = [i \in 1..MaxCalls |-> HttpCall("idle", "none", FALSE, 0, NoResp, <<>>)]

\* CacheManager(): an empty table, no call of save_articles started
SaveInit ==
    /\ spc = "idle"
    /\ sbatch = <<>>
    /\ sidx = 0
    /\ sconn = {}
    /\ sbefore = {}
    /\ sdisk = {}

\* NewsAppUI.__init__: self.articles = [], no load requested
RaceInit ==
    /\ loads = <<>>
    /\ running = 0
    /\ doneQ = <<>>
    /\ rtable = {}
    /\ selfArticles = <<>>
    /\ shownReq = 0

\* NewsAppUI.__init__ (line 99) and compose: the dashboard is shown
ViewInit ==
    /\ current_view = "dashboard"
    /\ settingsMounted = FALSE
    /\ backQ = 0
    /\ shows = 0
    /\ presses = 0
    /\ handled = 0
    /\ reloads = 0

\* a configured feed: name -> {url, categories}
CfgFeed(name, url, categories) == [name |-> name, url |-> url, categories |-> categories]

\* three of the default feeds (config lines 64-128), in their order
DefaultFeeds ==
    <<CfgFeed("hackernews", "https://news.ycombinator.com/rss", {"tech", "business"}),
      CfgFeed("github_trending", "https://github.com/trending.atom", {"tech"}),
      CfgFeed("bbc_us", "https://feeds.bbci.co.uk/news/world/us_and_canada/rss.xml",
              {"us", "world"})>>

\* ConfigManager() with the default feeds; no SettingsView, no query made
ConfigInit ==
    /\ cfgFeeds = DefaultFeeds
    /\ setOpen = FALSE
    /\ setCategory = "US"
    /\ feedInputs = <<>>
    /\ addPresses = 0
    /\ qcat = ""
    /\ qfeeds = <<>>
    /\ qfetch = "none"

\* an event of the app: kind is "init", "mount", "key", "button", "message"
\* or "update"; id is the key or the button id
Event(kind, id) == [kind |-> kind, id |-> id]

\* main lines 92-101 and models lines 88-98: NewsAppUI() composed and not yet
\* mounted; AppState() has current_category = Category.US
KeysInit ==
    /\ article_view_mode = "list"
    /\ state_category = "US"
    /\ viewing = "US"
    /\ loadArg = <<>>
    /\ event = Event("init", "")
    /\ loadStarted = FALSE
    /\ articlesCount = 0
    /\ updates = 0
    /\ panel = "placeholder"
    /\ panelMiss = FALSE

AuxInit == HttpInit /\ SaveInit /\ RaceInit /\ ViewInit /\ ConfigInit /\ KeysInit

\* the state after NewsHandler() and CacheManager() are constructed
Init == FetchInit /\ CacheInit /\ LoadInit /\ ParseInit /\ AuxInit

\* lines 107-123: the call builds one coroutine per source and hands them
\* to gather, which schedules them all; nothing has run yet
StartFetch(fs, ss, cat, lim) ==
    /\ feeds' = fs
    /\ scraping' = ss
    /\ category' = cat
    /\ limit' = lim
    /\ tasks' = BuildTasks(fs, ss, cat, lim)
    /\ tstate' = [i \in 1..Len(tasks') |-> "pending"]
    /\ tfailed' = [i \in 1..Len(tasks') |-> FALSE]
    /\ tout' = [i \in 1..Len(tasks') |-> None]
    /\ results' = [i \in 1..Len(tasks') |-> None]
    /\ pc' = "gathering"
    /\ reordered' = FALSE
    /\ gets' = 0
    /\ ret' = <<>>

\* handler.fetch_category(feeds, scraping, category, limit_per_source)
FetchCategoryCall ==
    /\ pc = "idle"
    /\ \E fs \in FeedLists, ss \in ScrapeLists, cat \in Categories, lim \in 1..MaxLimit :
          StartFetch(fs, ss, cat, lim)
    /\ UNCHANGED <<cacheVars, loadVars, parseVars, auxVars>>

\* a task runs up to its await on session.get: the GET is on the wire
\* a _fetch_text that passes no timeout to session.get
NoRequestTimeout == FALSE

\* lines 23 and 26: session.get(url, timeout=timeout), timeout = 10
RequestTimeout == TRUE

\* what the GET of a task can end with: for a source that answers, any
\* response; for a source that stays silent, only the timeout, if there is
\* one
EndOfGet(t, st) ==
    IF st = "inflight" THEN TaskResponses(t)
    ELSE IF st = "silent" /\ RequestTimeout THEN {Response("timeout", 0, EmptyText)}
    ELSE {}

\* a task runs up to its await on session.get, and the source never answers
TaskStartSilent(i) ==
    /\ tstate[i] = "pending"
    /\ tstate' = [tstate EXCEPT ![i] = "silent"]
    /\ gets' = gets + 1
    /\ UNCHANGED <<pc, feeds, scraping, category, limit, tasks, tfailed, tout, results,
                   reordered, ret>>
    /\ UNCHANGED <<cacheVars, loadVars, parseVars, auxVars>>

TaskStart(i) ==
    /\ tstate[i] = "pending"
    /\ tstate' = [tstate EXCEPT ![i] = "inflight"]
    /\ gets' = gets + 1
    /\ UNCHANGED <<pc, feeds, scraping, category, limit, tasks, tfailed, tout, results,
                   reordered, ret>>
    /\ UNCHANGED <<cacheVars, loadVars, parseVars, auxVars>>

\* the GET of a task ends (response, timeout or network error); the task
\* runs to its end without suspending again and gather records its outcome
TaskFinish(i) ==
    /\ tstate[i] \in {"inflight", "silent"}
    /\ \E resp \in EndOfGet(tasks[i], tstate[i]) :
          LET outcome == RunTask(tasks[i], resp) IN
          /\ tfailed' = [tfailed EXCEPT ![i] = SourceFailure(resp, outcome)]
          /\ tout' = [tout EXCEPT ![i] = Some(outcome)]
          /\ results' = GatherStore(results, i, outcome, NumDone(tstate) + 1)
    /\ tstate' = [tstate EXCEPT ![i] = "done"]
    /\ reordered' = (reordered \/ \E j \in 1..(i - 1) : tstate[j] # "done")
    /\ UNCHANGED <<pc, feeds, scraping, category, limit, tasks, gets, ret>>
    /\ UNCHANGED <<cacheVars, loadVars, parseVars, auxVars>>

\* lines 123-135: the await on gather completes, the results are merged
\* and the call returns (or the exception of gather leaves the call)
FetchCategoryReturn ==
    /\ pc = "gathering"
    /\ GatherSettled(tstate, results)
    /\ IF GatherRaises(tstate, results)
       THEN pc' = "raised" /\ ret' = ret
       ELSE pc' = "returned" /\ ret' = MergeResults(results)
    /\ UNCHANGED <<feeds, scraping, category, limit, tasks, tstate, tfailed, tout, results,
                   reordered, gets>>
    /\ UNCHANGED <<cacheVars, loadVars, parseVars, auxVars>>

NextFetch ==
    \/ FetchCategoryCall
    \/ \E i \in 1..Len(tasks) : TaskStart(i)
    \/ \E i \in 1..Len(tasks) : TaskFinish(i)
    \/ FetchCategoryReturn

SpecFetch == Init /\ [][NextFetch]_vars

\* the event loop runs every task that can run, a GET ends by its response
\* or by its timeout, and the await on gather is resumed once it can be
FetchProgress ==
    \/ \E i \in 1..Len(tasks) : TaskStart(i)
    \/ \E i \in 1..Len(tasks) : TaskStartSilent(i)
    \/ \E i \in 1..Len(tasks) : TaskFinish(i)
    \/ FetchCategoryReturn

\* feed sources per call when sources may stay silent
MaxSilentFeeds == 2

\* fetch_category(feeds, scraping, category, limit_per_source) on up to
\* MaxSilentFeeds feeds and at most one scraped page
FetchCategoryCallLive ==
    /\ pc = "idle"
    /\ \E n \in 0..MaxSilentFeeds, ss \in {<<>>, <<Scrape(1, SelStr(".story"))>>} :
          StartFetch([k \in 1..n |-> Feed(k)], ss, "TECH", 1)
    /\ UNCHANGED <<cacheVars, loadVars, parseVars, auxVars>>

\* fetch_category with sources that may stay silent
NextFetchLive ==
    \/ FetchCategoryCallLive
    \/ \E i \in 1..Len(tasks) : TaskStart(i)
    \/ \E i \in 1..Len(tasks) : TaskStartSilent(i)
    \/ \E i \in 1..Len(tasks) : TaskFinish(i)
    \/ FetchCategoryReturn

SpecFetchLive == Init /\ [][NextFetchLive]_vars /\ WF_vars(FetchProgress)

(***************************************************************************)
(* fetch_from_rss on one feed: the entries the parser may meet             *)
(***************************************************************************)
\* an entry field is absent, empty (an empty element) or has text
ParseEntries ==
    {Entry(id, link, title) :
        id \in {None, Some(""), Some("x")},
        link \in {None, Some(""), Some("x"), Some("l")},
        title \in {None, Some(""), Some("t")}}

\* fetch_from_rss(feed_url, source_name, category, limit) on a 200
\* response whose body parses to the entries
ParseFeed ==
    /\ pentries = <<>>
    /\ pnodes = <<>>
    /\ \E es \in [1..ParseLen -> ParseEntries], lim \in 1..(ParseLen + 1) :
          /\ pentries' = es
          /\ plimit' = lim
          /\ particles' = FetchFromRss(Response("http", 200, Text(FALSE, FALSE, es, <<>>)),
                                       "feed1", "TECH", lim).articles
    /\ UNCHANGED <<pnodes, pselector>>
    /\ UNCHANGED <<fetchVars, cacheVars, loadVars, auxVars>>

\* a block whose anchor has an empty href
NodeEmptyHref == Node({".story"}, "div", None, "", Some([href |-> Some(""), text |-> "Story e"]))

\* the nodes a scraped page is made of
ScrapeNodes == {NodeA, NodeRel, NodeNoLink, NodeEmptyHref}

\* the base URL of the page
ScrapeUrl == "http://scrape1/"

\* fetch_from_scrape(url, selector, source_name, category, limit) on a 200
\* response whose body parses to the nodes
ParseScrape ==
    /\ pentries = <<>>
    /\ pnodes = <<>>
    /\ \E ns \in [1..ParseLen -> ScrapeNodes], sel \in {".story", "h2"},
          lim \in 1..(ParseLen + 1) :
          /\ pnodes' = ns
          /\ pselector' = sel
          /\ plimit' = lim
          /\ particles' = FetchFromScrape(Response("http", 200, Text(FALSE, FALSE, <<>>, ns)),
                                          ScrapeUrl, sel, "scrape1", "TECH", lim).articles
    /\ UNCHANGED pentries
    /\ UNCHANGED <<fetchVars, cacheVars, loadVars, auxVars>>

NextParse ==
    \/ ParseFeed
    \/ ParseScrape

SpecParse == Init /\ [][NextParse]_vars

(***************************************************************************)
(* _fetch_text step by step, several calls on one NewsHandler              *)
(***************************************************************************)
\* statuses a GET may observe
HttpStatuses == {200, 204, 404, 500}

\* bodies a response may carry
HttpBodies == {EmptyText, Text(FALSE, FALSE, <<EntryB>>, <<>>)}

\* what one GET can observe: a status and a body, a timeout
\* (asyncio.TimeoutError), a network error (aiohttp.ClientError), a body
\* that resp.text() cannot decode (UnicodeDecodeError)
HttpOutcomes ==
    {Response("http", st, t) : st \in HttpStatuses, t \in HttpBodies}
    \cup {Response("timeout", 0, EmptyText), Response("neterr", 0, EmptyText),
          Response("decodeerr", 200, EmptyText)}

\* line 24: self._external_session or aiohttp.ClientSession()
AcquireSession(ext) == IF ext THEN "external" ELSE "own"

\* an except clause that catches aiohttp.ClientError only
CaughtClientErrorOnly(kind) == kind = "neterr"

\* line 31: `except Exception` catches the three exceptions of the model
CaughtByExcept(kind) == kind \in {"timeout", "neterr", "decodeerr"}

\* a finally block that closes nothing
ClosesNothing(ext) == FALSE

\* line 35: `if not self._external_session`
ClosesSession(ext) == ~ext

\* NewsHandler(session=s): a handler constructed around a supplied session
NewsHandlerInit ==
    /\ ~external
    /\ \A i \in 1..MaxCalls : hcalls[i].pc = "idle"
    /\ external' = TRUE
    /\ UNCHANGED <<extOpen, hcalls>>
    /\ UNCHANGED <<coreVars, notHttp>>

\* line 24: the call takes the supplied session or creates its own
FetchTextAcquire(i) ==
    /\ hcalls[i].pc = "idle"
    /\ hcalls' = [hcalls EXCEPT ![i] =
                     HttpCall("acquired", AcquireSession(external),
                              AcquireSession(external) = "own", 0, NoResp, <<>>)]
    /\ UNCHANGED <<external, extOpen>>
    /\ UNCHANGED <<coreVars, notHttp>>

\* line 26: session.get(url, timeout=timeout) is issued and awaited
FetchTextGet(i) ==
    /\ hcalls[i].pc = "acquired"
    /\ \E resp \in HttpOutcomes :
          hcalls' = [hcalls EXCEPT ![i].pc = "got", ![i].gets = @ + 1, ![i].resp = resp]
    /\ UNCHANGED <<external, extOpen>>
    /\ UNCHANGED <<coreVars, notHttp>>

\* lines 27-33: the status test, resp.text() and the except clause; an
\* exception the clause does not catch stays pending through the finally
FetchTextBody(i) ==
    /\ hcalls[i].pc = "got"
    /\ LET resp == hcalls[i].resp IN
       IF resp.kind = "http" \/ CaughtByExcept(resp.kind)
       THEN hcalls' = [hcalls EXCEPT ![i].pc = "finally", ![i].ret = FetchText(resp)]
       ELSE hcalls' = [hcalls EXCEPT ![i].pc = "finally_exc"]
    /\ UNCHANGED <<external, extOpen>>
    /\ UNCHANGED <<coreVars, notHttp>>

\* lines 34-36: the finally block, then the call returns (or the pending
\* exception leaves it)
FetchTextFinally(i) ==
    /\ hcalls[i].pc \in {"finally", "finally_exc"}
    /\ LET closes == ClosesSession(external)
           after == IF hcalls[i].pc = "finally" THEN "returned" ELSE "raised" IN
       /\ hcalls' = [hcalls EXCEPT ![i].pc = after,
                                   ![i].open = IF closes /\ hcalls[i].session = "own"
                                               THEN FALSE ELSE @]
       /\ extOpen' = IF closes /\ hcalls[i].session = "external" THEN FALSE ELSE extOpen
    /\ UNCHANGED external
    /\ UNCHANGED <<coreVars, notHttp>>

NextHttp ==
    \/ NewsHandlerInit
    \/ \E i \in 1..MaxCalls : FetchTextAcquire(i)
    \/ \E i \in 1..MaxCalls : FetchTextGet(i)
    \/ \E i \in 1..MaxCalls : FetchTextBody(i)
    \/ \E i \in 1..MaxCalls : FetchTextFinally(i)

SpecHttp == Init /\ [][NextHttp]_vars

(***************************************************************************)
(* Conversions used by the cache: datetime <-> ISO text, tags <-> JSON     *)
(***************************************************************************)
DigitChars == <<"0", "1", "2", "3", "4", "5", "6", "7", "8", "9">>

DigitVal(c) == CHOOSE d \in 0..9 : DigitChars[d + 1] = c

\* a two-digit, zero-padded field
Pad2(n) == DigitChars[(n \div 10) + 1] \o DigitChars[(n % 10) + 1]

TicksPerHour == SecsPerHour * TicksPerSec

\* datetime.isoformat(): the seconds in a fixed width, and the fraction
\* only when it is not zero
IsoFormat(t) ==
    Pad2(t \div TicksPerSec)
    \o (IF t % TicksPerSec = 0 THEN "" ELSE "." \o DigitChars[(t % TicksPerSec) + 1])

\* datetime.fromisoformat()
FromIsoFormat(s) ==
    (DigitVal(SubSeq(s, 1, 1)) * 10 + DigitVal(SubSeq(s, 2, 2))) * TicksPerSec
    + (IF Len(s) > 3 THEN DigitVal(SubSeq(s, 4, 4)) ELSE 0)

\* the byte value of a character of an ISO text
CharOrd(c) == IF c = "." THEN 46 ELSE 48 + DigitVal(c)

\* a < b for TEXT values in SQLite (BINARY collation: memcmp, then length)
RECURSIVE TextLess(_, _)
TextLess(a, b) ==
    IF b = "" THEN FALSE
    ELSE IF a = "" THEN TRUE
    ELSE LET ca == CharOrd(SubSeq(a, 1, 1))
             cb == CharOrd(SubSeq(b, 1, 1))
         IN  IF ca # cb THEN ca < cb
             ELSE TextLess(SubSeq(a, 2, Len(a)), SubSeq(b, 2, Len(b)))

\* json.dumps of a list of str
RECURSIVE JsonItems(_)
JsonItems(tags) ==
    IF tags = <<>> THEN ""
    ELSE "\"" \o Head(tags) \o "\""
         \o (IF Len(tags) > 1 THEN ", " ELSE "") \o JsonItems(Tail(tags))

JsonDumps(tags) == "[" \o JsonItems(tags) \o "]"

\* json.loads of such a text: the quoted strings, in order
RECURSIVE JsonScan(_, _, _, _)
JsonScan(text, inString, current, acc) ==
    IF text = "" THEN acc
    ELSE LET c == SubSeq(text, 1, 1)
             rest == SubSeq(text, 2, Len(text))
         IN  IF c = "\""
             THEN IF inString THEN JsonScan(rest, FALSE, "", Append(acc, current))
                  ELSE JsonScan(rest, TRUE, "", acc)
             ELSE IF inString THEN JsonScan(rest, TRUE, current \o c, acc)
             ELSE JsonScan(rest, FALSE, current, acc)

JsonLoads(text) == JsonScan(text, FALSE, "", <<>>)

(***************************************************************************)
(* CacheManager (cache/__init__.py)                                        *)
(***************************************************************************)
DefaultLimit == 50

\* the parameter tuple of INSERT OR REPLACE (lines 59-75)
RowOfArticle(a, utcnow) ==
    [id |-> a.id, headline |-> a.headline, summary |-> a.summary,
     source |-> a.source,
     category |-> Some(CategoryValue(a.category)),
     url |-> a.url, author |-> a.author,
     published_at |-> IF IsNone(a.published_at) THEN None
                      ELSE Some(IsoFormat(Val(a.published_at))),
     image_url |-> a.image_url, content |-> a.content,
     read_time |-> a.read_time_minutes,
     tags |-> Some(JsonDumps(a.tags)),
     is_read |-> IF a.is_read THEN 1 ELSE 0,
     is_bookmarked |-> IF a.is_bookmarked THEN 1 ELSE 0,
     cached_at |-> Some(IsoFormat(IF IsNone(a.cached_at) THEN utcnow ELSE Val(a.cached_at)))]

\* an upsert that keeps the flags of the row it replaces
InsertKeepingFlags(tbl, row) ==
    {r \in tbl : r.id # row.id}
    \cup {IF \E r \in tbl : r.id = row.id
          THEN LET old == CHOOSE r \in tbl : r.id = row.id
               IN  [row EXCEPT !.is_read = old.is_read,
                               !.is_bookmarked = old.is_bookmarked]
          ELSE row}

\* INSERT OR REPLACE on the primary key id
InsertOrReplace(tbl, row) == {r \in tbl : r.id # row.id} \cup {row}

\* save_articles: the loop over the batch, then the commit
RECURSIVE SaveArticles(_, _, _)
SaveArticles(tbl, batch, utcnow) ==
    IF batch = <<>> THEN tbl
    ELSE SaveArticles(InsertOrReplace(tbl, RowOfArticle(Head(batch), utcnow)),
                      Tail(batch), utcnow)

\* a save_articles that swallows the error of the store
OnStoreErrorSwallowed == "returned"

\* lines 50-77: no try/except around cur.execute and self._conn.commit(),
\* so an error of the store leaves the call as an exception
OnStoreError == "raised"

\* the Article built from a row (lines 98-122)
ArticleOfRow(r) ==
    [id |-> r.id, headline |-> r.headline, summary |-> r.summary,
     source |-> r.source,
     category |-> IF TruthyStr(r.category) THEN CategoryOf(Val(r.category)) ELSE "US",
     url |-> r.url, author |-> r.author,
     published_at |-> IF TruthyStr(r.published_at)
                      THEN Some(FromIsoFormat(Val(r.published_at))) ELSE None,
     image_url |-> r.image_url, content |-> r.content,
     read_time_minutes |-> r.read_time,
     tags |-> IF TruthyStr(r.tags) THEN JsonLoads(Val(r.tags)) ELSE <<>>,
     is_read |-> r.is_read # 0,
     is_bookmarked |-> r.is_bookmarked # 0,
     cached_at |-> IF TruthyStr(r.cached_at)
                   THEN Some(FromIsoFormat(Val(r.cached_at))) ELSE None]

\* the arguments of get_articles
GetArgs(cat, max_age_hours, lim) ==
    [category |-> cat, max_age_hours |-> max_age_hours, limit |-> lim]

\* the WHERE clause (lines 84-92): category = ? AND cached_at >= ?
\* (a comparison with NULL is not true)
AgeClause(r, args, utcnow) ==
    \/ IsNone(args.max_age_hours)
    \/ /\ ~IsNone(r.cached_at)
       /\ ~TextLess(Val(r.cached_at),
                    IsoFormat(utcnow - Val(args.max_age_hours) * TicksPerHour))

\* a query that forgets the category clause
CategoryClauseIgnored(r, args) == TRUE

CategoryClause(r, args) ==
    \/ IsNone(args.category)
    \/ r.category = Some(CategoryValue(Val(args.category)))

Where(r, args, utcnow) == CategoryClause(r, args) /\ AgeClause(r, args, utcnow)

\* ORDER BY published_at DESC: NULL sorts below every text; the order of
\* rows with equal keys is not determined
KeyLess(a, b) ==
    IF IsNone(b) THEN FALSE
    ELSE IF IsNone(a) THEN TRUE
    ELSE TextLess(Val(a), Val(b))

\* ORDER BY published_at without DESC
OrderedAscending(rows) ==
    \A i \in 1..Len(rows), j \in 1..Len(rows) :
        i < j => ~KeyLess(rows[j].published_at, rows[i].published_at)

OrderedDesc(rows) ==
    \A i \in 1..Len(rows), j \in 1..Len(rows) :
        i < j => ~KeyLess(rows[i].published_at, rows[j].published_at)

Orderings(S) ==
    {rows \in [1..Cardinality(S) -> S] :
        /\ \A i \in 1..Cardinality(S), j \in 1..Cardinality(S) : rows[i] = rows[j] => i = j
        /\ OrderedDesc(rows)}

\* get_articles: the lists the query may return, as Articles
GetArticles(tbl, args, utcnow) ==
    {[k \in 1..Min(Len(rows), args.limit) |-> ArticleOfRow(rows[k])] :
        rows \in Orderings({r \in tbl : Where(r, args, utcnow)})}

\* an UPDATE that lost its WHERE clause
MarkAsReadAll(tbl, article_id, read) ==
    {[r EXCEPT !.is_read = IF read THEN 1 ELSE 0] : r \in tbl}

\* mark_as_read: UPDATE articles SET is_read = ? WHERE id = ?
MarkAsRead(tbl, article_id, read) ==
    {IF r.id = article_id THEN [r EXCEPT !.is_read = IF read THEN 1 ELSE 0] ELSE r :
        r \in tbl}

\* mark_as_bookmarked: UPDATE articles SET is_bookmarked = ? WHERE id = ?
MarkAsBookmarked(tbl, article_id, bookmarked) ==
    {IF r.id = article_id THEN [r EXCEPT !.is_bookmarked = IF bookmarked THEN 1 ELSE 0]
     ELSE r : r \in tbl}

\* a query that lost its WHERE clause
GetBookmarkedUnfiltered(tbl, lim) ==
    {[k \in 1..Min(Len(rows), lim) |-> ArticleOfRow(rows[k])] : rows \in Orderings(tbl)}

\* get_bookmarked_articles: WHERE is_bookmarked = 1 ORDER BY published_at
\* DESC LIMIT ?; the lists the query may return, as Articles
GetBookmarkedArticles(tbl, lim) ==
    {[k \in 1..Min(Len(rows), lim) |-> ArticleOfRow(rows[k])] :
        rows \in Orderings({r \in tbl : r.is_bookmarked = 1})}

TicksPerDay == HoursPerDay * TicksPerHour

\* a DELETE with <= in place of <
ClearOldArticlesInclusive(tbl, older_than_days, utcnow) ==
    {r \in tbl :
        /\ ~IsNone(r.cached_at)
        /\ TextLess(IsoFormat(utcnow - older_than_days * TicksPerDay), Val(r.cached_at))}

\* clear_old_articles: DELETE FROM articles WHERE cached_at < ?
\* (a comparison with NULL is not true)
ClearOldArticles(tbl, older_than_days, utcnow) ==
    {r \in tbl :
        ~(/\ ~IsNone(r.cached_at)
          /\ TextLess(Val(r.cached_at), IsoFormat(utcnow - older_than_days * TicksPerDay)))}

(***************************************************************************)
(* The cache: the articles the model saves                                 *)
(***************************************************************************)
\* a cached_at seven hours before construction, one after the last reading
StaleTime == StartTime - 7 * TicksPerHour
AheadTime == StartTime + MaxElapsed + TicksPerHour
PubTime == StartTime - TicksPerHour - 1

\* "a" is a bare article as the fetch pipeline builds it, "b" and "c" have
\* every optional field set and differ in published_at; `carried` is the cached_at the object carries, and
\* an object read back from the cache carries its flags as well
SampleArticle(id, cat, carried) ==
    [id |-> id,
     headline |-> "Headline " \o id,
     summary |-> IF id = "a" THEN "" ELSE "Summary",
     source |-> "feed1",
     category |-> cat,
     url |-> "http://x/" \o id,
     author |-> IF id = "a" THEN None ELSE Some("Ann"),
     published_at |-> IF id = "a" THEN None
                      ELSE IF id = "b" THEN Some(PubTime) ELSE Some(PubTime + 1),
     image_url |-> IF id = "a" THEN None ELSE Some("http://x/img"),
     content |-> IF id = "a" THEN None ELSE Some("Body"),
     read_time_minutes |-> IF id = "a" THEN None ELSE Some(3),
     tags |-> IF id = "a" THEN <<>> ELSE <<"x", "y">>,
     is_read |-> ~IsNone(carried),
     is_bookmarked |-> ~IsNone(carried),
     cached_at |-> carried]

SampleArticles ==
    {SampleArticle("a", "TECH", carried) :
        carried \in {None, Some(StaleTime), Some(AheadTime)}}
    \cup {SampleArticle("b", "BUSINESS", carried) : carried \in {None, Some(StaleTime)}}
    \cup {SampleArticle("c", "TECH", None)}

\* the ids and flag values the mark calls are made with ("z" is never saved)
MarkIds == {"c", "z"}

\* the limits get_bookmarked_articles is called with
BookmarkLimits == {1, DefaultLimit}

\* the values of older_than_days
DaySet == {0, 1}

\* the batches save_articles is called with: the empty batch, every
\* single article, two articles with different ids, and two with the same id
Batches ==
    {<<>>}
    \cup {<<x>> : x \in SampleArticles}
    \cup {<<SampleArticle("b", "BUSINESS", None), SampleArticle("c", "TECH", None)>>,
          <<SampleArticle("a", "TECH", Some(StaleTime)), SampleArticle("a", "TECH", None)>>}

GetArgSet ==
    {GetArgs(cat, h, lim) :
        cat \in {None} \cup {Some(c) : c \in Categories},
        h \in {None, Some(0), Some(1)},
        lim \in {1, DefaultLimit}}

(***************************************************************************)
(* The cache as a state machine                                            *)
(***************************************************************************)
\* cache.save_articles(batch)
DoSaveArticles ==
    /\ \E batch \in Batches :
          /\ table' = SaveArticles(table, batch, now)
          /\ lastSaved' = batch
    /\ gotArgs' = None
    /\ got' = <<>>
    /\ call' = Call("save_articles", "", FALSE, 0, 0, 0)
    /\ UNCHANGED now
    /\ UNCHANGED <<fetchVars, loadVars, parseVars, auxVars>>

\* cache.get_articles(category, max_age_hours, limit)
DoGetArticles ==
    /\ \E args \in GetArgSet :
          /\ gotArgs' = Some(args)
          /\ got' \in GetArticles(table, args, now)
          /\ call' = Call("get_articles", "", FALSE, args.limit, 0, 0)
    /\ UNCHANGED <<table, now, lastSaved>>
    /\ UNCHANGED <<fetchVars, loadVars, parseVars, auxVars>>

\* the clock advances between two calls
Tick ==
    /\ now < StartTime + MaxElapsed
    /\ now' = now + 1
    /\ lastSaved' = <<>>
    /\ gotArgs' = None
    /\ got' = <<>>
    /\ call' = NoCall
    /\ UNCHANGED table
    /\ UNCHANGED <<fetchVars, loadVars, parseVars, auxVars>>

\* cache.mark_as_read(article_id, read)
DoMarkAsRead ==
    /\ \E id \in MarkIds, v \in BOOLEAN :
          /\ table' = MarkAsRead(table, id, v)
          /\ call' = Call("mark_as_read", id, v, 0, 0,
                       Cardinality({r \in table : r.id = id}))
    /\ lastSaved' = <<>>
    /\ gotArgs' = None
    /\ got' = <<>>
    /\ UNCHANGED now
    /\ UNCHANGED <<fetchVars, loadVars, parseVars, auxVars>>

\* cache.mark_as_bookmarked(article_id, bookmarked)
DoMarkAsBookmarked ==
    /\ \E id \in MarkIds, v \in BOOLEAN :
          /\ table' = MarkAsBookmarked(table, id, v)
          /\ call' = Call("mark_as_bookmarked", id, v, 0, 0,
                       Cardinality({r \in table : r.id = id}))
    /\ lastSaved' = <<>>
    /\ gotArgs' = None
    /\ got' = <<>>
    /\ UNCHANGED now
    /\ UNCHANGED <<fetchVars, loadVars, parseVars, auxVars>>

\* cache.get_bookmarked_articles(limit)
DoGetBookmarkedArticles ==
    /\ \E lim \in BookmarkLimits :
          /\ got' \in GetBookmarkedArticles(table, lim)
          /\ call' = Call("get_bookmarked_articles", "", FALSE, lim, 0, 0)
    /\ gotArgs' = None
    /\ UNCHANGED <<table, now, lastSaved>>
    /\ UNCHANGED <<fetchVars, loadVars, parseVars, auxVars>>

\* cache.clear_old_articles(older_than_days)
DoClearOldArticles ==
    /\ \E d \in DaySet :
          /\ table' = ClearOldArticles(table, d, now)
          /\ call' = Call("clear_old_articles", "", FALSE, 0, d,
                       Cardinality(table) - Cardinality(ClearOldArticles(table, d, now)))
    /\ lastSaved' = <<>>
    /\ gotArgs' = None
    /\ got' = <<>>
    /\ UNCHANGED now
    /\ UNCHANGED <<fetchVars, loadVars, parseVars, auxVars>>

NextCache ==
    \/ DoSaveArticles
    \/ DoGetArticles
    \/ DoMarkAsRead
    \/ DoMarkAsBookmarked
    \/ DoGetBookmarkedArticles
    \/ DoClearOldArticles
    \/ Tick

SpecCache == Init /\ [][NextCache]_vars

(***************************************************************************)
(* save_articles statement by statement, on a store that can fail          *)
(***************************************************************************)
\* line 50: cache.save_articles(batch)
SaveCall ==
    /\ spc \in {"idle", "returned", "raised"}
    /\ \E batch \in Batches : sbatch' = batch
    /\ spc' = "looping"
    /\ sidx' = 0
    /\ sbefore' = sconn
    /\ UNCHANGED <<sconn, sdisk>>
    /\ UNCHANGED <<coreVars, notSave>>

\* lines 52-76: cur.execute(INSERT OR REPLACE ...) for the next article;
\* the statement takes effect in the open transaction, or the store fails
\* (sqlite3.Error) and the statement has no effect
SaveExecute ==
    /\ spc = "looping"
    /\ sidx < Len(sbatch)
    /\ \/ /\ sconn' = InsertOrReplace(sconn, RowOfArticle(sbatch[sidx + 1], now))
          /\ sidx' = sidx + 1
          /\ UNCHANGED spc
       \/ /\ spc' = OnStoreError
          /\ UNCHANGED <<sconn, sidx>>
    /\ UNCHANGED <<sbatch, sbefore, sdisk>>
    /\ UNCHANGED <<coreVars, notSave>>

\* line 77: self._conn.commit() writes the open transaction, or fails
SaveCommit ==
    /\ spc = "looping"
    /\ sidx = Len(sbatch)
    /\ \/ /\ sdisk' = sconn
          /\ spc' = "returned"
       \/ /\ spc' = OnStoreError
          /\ UNCHANGED sdisk
    /\ UNCHANGED <<sbatch, sidx, sconn, sbefore>>
    /\ UNCHANGED <<coreVars, notSave>>

\* cache lines 126-129: the cache operation that follows a failed save,
\* mark_as_read(id, True) on the same connection: the UPDATE, then
\* self._conn.commit(), which writes whatever the open transaction holds
SaveThenMark ==
    /\ spc = "raised"
    /\ \E id \in MarkIds : sconn' = MarkAsRead(sconn, id, TRUE)
    /\ sdisk' = sconn'
    /\ sdisk' # sdisk
    /\ UNCHANGED <<spc, sbatch, sidx, sbefore>>
    /\ UNCHANGED <<coreVars, notSave>>

NextSave ==
    \/ SaveCall
    \/ SaveThenMark
    \/ SaveExecute
    \/ SaveCommit

SpecSave == Init /\ [][NextSave]_vars

(***************************************************************************)
(* ConfigManager (config/__init__.py): the configured sources              *)
(***************************************************************************)
\* news.rss_feeds: name -> url, categories
RssFeeds ==
    <<[name |-> "feed1", url |-> "http://feed1", categories |-> {"tech"}]>>

\* news.scraping_sources: name -> url, selectors, categories
ScrapingSources ==
    <<[name |-> "scrape1", url |-> "http://scrape1/",
       selectors |-> SelDict(<<<<"h2", ".story">>>>), categories |-> {"tech"}]>>

\* a lookup that ignores the category
FeedsForCategoryUnfiltered(cfg, cat_value) ==
    [k \in 1..Len(cfg) |-> [name |-> Some(cfg[k].name), url |-> cfg[k].url]]

\* get_feeds_for_category(category) on the feeds cfg (lines 234-241)
FeedsForCategory(cfg, cat_value) ==
    LET chosen == SelectSeq(cfg, LAMBDA f : cat_value \in f.categories)
    IN  [k \in 1..Len(chosen) |-> [name |-> Some(chosen[k].name), url |-> chosen[k].url]]

\* get_feeds_for_category(category)
GetFeedsForCategory(cat_value) == FeedsForCategory(RssFeeds, cat_value)

\* get_scraping_sources_for_category(category)
GetScrapingSourcesForCategory(cat_value) ==
    LET chosen == SelectSeq(ScrapingSources, LAMBDA f : cat_value \in f.categories)
    IN  [k \in 1..Len(chosen) |->
            [name |-> Some(chosen[k].name), url |-> chosen[k].url,
             selectors |-> chosen[k].selectors]]

(***************************************************************************)
(* NewsAppUI._load_category (main.py)                                      *)
(***************************************************************************)
CacheMaxAgeHours == 6
CacheLimit == 20
LimitPerSource == 5

\* the arguments of the cache lookup (line 153)
LoadArgs(cat) == GetArgs(Some(cat), Some(CacheMaxAgeHours), CacheLimit)

\* a load that never takes the cached list
CacheHitNever(cached) == FALSE

\* `if cached:` (line 154)
CacheHit(cached) == cached # <<>>

\* lines 149-158: the task of the load looks in the cache and returns the
\* cached list, or starts fetch_category and suspends on it
LoadCategoryCall ==
    /\ lpc = "idle"
    /\ \E cat \in Categories :
          \E cached \in GetArticles(table, LoadArgs(cat), now) :
             /\ lcategory' = cat
             /\ gotArgs' = Some(LoadArgs(cat))
             /\ got' = cached
             /\ call' = Call("get_articles", "", FALSE, CacheLimit, 0, 0)
             /\ IF CacheHit(cached)
                THEN /\ lpc' = "hit"
                     /\ lret' = cached
                     /\ UNCHANGED fetchVars
                ELSE /\ lpc' = "fetching"
                     /\ lret' = <<>>
                     /\ StartFetch(GetFeedsForCategory(CategoryValue(cat)),
                                   GetScrapingSourcesForCategory(CategoryValue(cat)),
                                   cat, LimitPerSource)
    /\ UNCHANGED <<table, now, lastSaved, uiArticles>>
    /\ UNCHANGED <<parseVars, auxVars>>

\* the frame of a fetch_category call whose result the caller has taken
EndFetch ==
    /\ pc' = "idle"
    /\ feeds' = <<>>
    /\ scraping' = <<>>
    /\ tasks' = <<>>
    /\ tstate' = <<>>
    /\ tfailed' = <<>>
    /\ tout' = <<>>
    /\ results' = <<>>
    /\ reordered' = FALSE
    /\ ret' = <<>>
    /\ UNCHANGED <<category, limit, gets>>

\* lines 158-161: fetch_category has returned; a non-empty list is saved,
\* and the list is the result of the task (an exception of fetch_category
\* is the outcome of the task)
LoadCategoryReturn ==
    /\ lpc = "fetching"
    /\ pc \in {"returned", "raised"}
    /\ IF pc = "raised"
       THEN /\ lpc' = "failed"
            /\ lret' = <<>>
            /\ UNCHANGED cacheVars
       ELSE /\ lpc' = "missed"
            /\ lret' = ret
            /\ IF ret # <<>>
               THEN /\ table' = SaveArticles(table, ret, now)
                    /\ lastSaved' = ret
                    /\ gotArgs' = None
                    /\ got' = <<>>
                    /\ call' = Call("save_articles", "", FALSE, 0, 0, 0)
                    /\ UNCHANGED now
               ELSE UNCHANGED cacheVars
    /\ EndFetch
    /\ UNCHANGED <<lcategory, uiArticles>>
    /\ UNCHANGED <<parseVars, auxVars>>

\* _update_display, lines 171-172 and 192: the awaiting task takes the
\* result (or the exception) of the load
UpdateDisplay ==
    /\ lpc \in {"hit", "missed", "failed"}
    /\ lpc' = "idle"
    /\ uiArticles' = IF lpc = "failed" THEN uiArticles ELSE lret
    /\ lret' = <<>>
    /\ UNCHANGED lcategory
    /\ UNCHANGED <<fetchVars, cacheVars, parseVars, auxVars>>

\* between two loads other callers write to the cache and time passes
NextLoad ==
    \/ LoadCategoryCall
    \/ \E i \in 1..Len(tasks) : TaskStart(i)
    \/ \E i \in 1..Len(tasks) : TaskFinish(i)
    \/ FetchCategoryReturn
    \/ LoadCategoryReturn
    \/ UpdateDisplay
    \/ lpc = "idle" /\ DoSaveArticles
    \/ lpc = "idle" /\ Tick

SpecLoad == Init /\ [][NextLoad]_vars

(***************************************************************************)
(* View navigation (main.py 314-367, ui/settings.py 106-117)               *)
(***************************************************************************)
\* the settings/back cycles the model follows
MaxCycles == 5

\* a _show_dashboard that leaves current_view alone
ShowDashboardKeepsView(view) == view

\* line 325: self.current_view = "dashboard"
ShowDashboardView(view) == "dashboard"

\* lines 314-321: _show_settings, from the settings button, the key 's' or
\* action_settings, in whatever view the app is
ShowSettings ==
    /\ shows < MaxCycles
    /\ shows' = shows + 1
    /\ current_view' = "settings"
    /\ settingsMounted' = TRUE
    /\ UNCHANGED <<backQ, presses, handled, reloads>>
    /\ UNCHANGED <<coreVars, notView>>

\* settings.py 106-111: Button.Pressed of back-btn reaches
\* SettingsView.on_button_pressed, which posts one BackToDashboardMessage;
\* the event then bubbles to NewsAppUI.on_button_pressed, where no branch
\* matches the id
PressBack ==
    /\ settingsMounted
    /\ presses < MaxCycles
    /\ presses' = presses + 1
    /\ backQ' = backQ + 1
    /\ UNCHANGED <<current_view, settingsMounted, shows, handled, reloads>>
    /\ UNCHANGED <<coreVars, notView>>

\* main.py 361-363 and 323-359: on_back_to_dashboard_message calls
\* _show_dashboard, which sets the view, rebuilds the dashboard and reloads
\* the current category
HandleBack ==
    /\ backQ > 0
    /\ backQ' = backQ - 1
    /\ handled' = handled + 1
    /\ current_view' = ShowDashboardView(current_view)
    /\ settingsMounted' = FALSE
    /\ reloads' = reloads + 1
    /\ UNCHANGED <<shows, presses>>
    /\ UNCHANGED <<coreVars, notView>>

NextView ==
    \/ ShowSettings
    \/ PressBack
    \/ HandleBack

SpecView == Init /\ [][NextView]_vars

(***************************************************************************)
(* ConfigManager.get_feeds_for_category and the SettingsView               *)
(* (config/__init__.py 225-241, ui/settings.py 66-160)                     *)
(***************************************************************************)
\* presses of 'Add Feed' the model follows
MaxAdds == 2

\* the members the category selector of the settings offers
SettingsCategories == {"US", "TECH", "BUSINESS"}

\* the categories get_feeds_for_category is asked for
QueryCategories == {"us", "tech", "business", "nonexistent"}

\* the URL the user types into an Input
EditedUrl == "https://edited.example/rss"

\* settings.py 78-104: _update_feeds_display rebuilds feed_inputs, one
\* Input per feed of the category, holding the feed's URL
FeedsDisplay(cfg, member) ==
    LET fs == FeedsForCategory(cfg, CategoryValue(member))
    IN  [k \in 1..Len(fs) |-> [name |-> Val(fs[k].name), value |-> fs[k].url]]

\* settings.py 145: f"custom_{len(self.feed_inputs) + 1}"
NewFeedName(inputs) == "custom_" \o Digits[Len(inputs) + 1]

CfgNames(cfg) == {cfg[k].name : k \in 1..Len(cfg)}

\* settings.py 149-153: the feed is added only under a name that is free
AddFeed(cfg, inputs, member) ==
    IF NewFeedName(inputs) \notin CfgNames(cfg)
    THEN Append(cfg, CfgFeed(NewFeedName(inputs), "https://example.com/feed.xml",
                             {CategoryValue(member)}))
    ELSE cfg

\* settings.py 122-128: each Input's value is written to the feed it names
SaveFeedUrls(cfg, inputs) ==
    [k \in 1..Len(cfg) |->
        IF \E j \in 1..Len(inputs) : inputs[j].name = cfg[k].name
        THEN [cfg[k] EXCEPT !.url =
                 inputs[CHOOSE j \in 1..Len(inputs) : inputs[j].name = cfg[k].name].value]
        ELSE cfg[k]]

\* fetch_category(feeds, [], category): with no task gather returns at once
FetchOutcome(fs) ==
    LET ts == BuildTasks(fs, <<>>, "TECH", LimitPerSource)
        st == [i \in 1..Len(ts) |-> "pending"]
        rs == [i \in 1..Len(ts) |-> None]
    IN  IF ~GatherSettled(st, rs) THEN "none"
        ELSE IF GatherRaises(st, rs) THEN "raised"
        ELSE IF MergeResults(rs) = <<>> THEN "empty" ELSE "articles"

\* main.py 314-321 and settings.py 31-36, 66-68: a new SettingsView is
\* mounted; it starts on Category.US and shows that category's feeds
OpenSettings ==
    /\ setOpen' = TRUE
    /\ setCategory' = "US"
    /\ feedInputs' = FeedsDisplay(cfgFeeds, "US")
    /\ UNCHANGED <<cfgFeeds, addPresses, qcat, qfeeds, qfetch>>
    /\ UNCHANGED <<coreVars, notCfg>>

\* settings.py 70-76: on_select_changed
SelectChanged ==
    /\ setOpen
    /\ \E member \in SettingsCategories :
          /\ setCategory' = member
          /\ feedInputs' = FeedsDisplay(cfgFeeds, member)
    /\ UNCHANGED <<cfgFeeds, setOpen, addPresses, qcat, qfeeds, qfetch>>
    /\ UNCHANGED <<coreVars, notCfg>>

\* the user edits the URL in one Input
EditInput ==
    /\ setOpen
    /\ \E k \in 1..Len(feedInputs) :
          /\ feedInputs[k].value # EditedUrl
          /\ feedInputs' = [feedInputs EXCEPT ![k].value = EditedUrl]
    /\ UNCHANGED <<cfgFeeds, setOpen, setCategory, addPresses, qcat, qfeeds, qfetch>>
    /\ UNCHANGED <<coreVars, notCfg>>

\* settings.py 119-140: _save_feeds
SaveFeeds ==
    /\ setOpen
    /\ cfgFeeds' = SaveFeedUrls(cfgFeeds, feedInputs)
    /\ cfgFeeds' # cfgFeeds
    /\ qcat' = "" /\ qfeeds' = <<>> /\ qfetch' = "none"
    /\ UNCHANGED <<setOpen, setCategory, feedInputs, addPresses>>
    /\ UNCHANGED <<coreVars, notCfg>>

\* settings.py 142-160: _add_new_feed, then _update_feeds_display
AddNewFeed ==
    /\ setOpen
    /\ addPresses < MaxAdds
    /\ addPresses' = addPresses + 1
    /\ cfgFeeds' = AddFeed(cfgFeeds, feedInputs, setCategory)
    /\ feedInputs' = FeedsDisplay(cfgFeeds', setCategory)
    /\ qcat' = "" /\ qfeeds' = <<>> /\ qfetch' = "none"
    /\ UNCHANGED <<setOpen, setCategory>>
    /\ UNCHANGED <<coreVars, notCfg>>

\* config 225-241: get_feeds_for_category(c); a caller that gets no feed
\* hands the empty list to fetch_category
GetFeeds ==
    /\ \E c \in QueryCategories :
          /\ qcat' = c
          /\ qfeeds' = FeedsForCategory(cfgFeeds, c)
          /\ qfetch' = IF qfeeds' = <<>> THEN FetchOutcome(qfeeds') ELSE "none"
    /\ UNCHANGED <<cfgFeeds, setOpen, setCategory, feedInputs, addPresses>>
    /\ UNCHANGED <<coreVars, notCfg>>

NextConfig ==
    \/ OpenSettings
    \/ SelectChanged
    \/ EditInput
    \/ SaveFeeds
    \/ AddNewFeed
    \/ GetFeeds

SpecConfig == Init /\ [][NextConfig]_vars

(***************************************************************************)
(* The keys and buttons of NewsAppUI (main lines 134-363)                  *)
(***************************************************************************)
MaxPending == 2
MaxArticles == 1

\* lines 253-262: category_map of on_button_pressed
CategoryMap ==
    {<<"cat-breaking", "BREAKING">>, <<"cat-agentic-dev", "AGENTIC_AI_DEV">>,
     <<"cat-agentic-bus", "AGENTIC_AI_BUS">>, <<"cat-us", "US">>,
     <<"cat-world", "WORLD">>, <<"cat-tech", "TECH">>,
     <<"cat-business", "BUSINESS">>, <<"cat-science", "SCIENCE">>}

\* lines 302-308: key_map of on_key
KeyMap ==
    {<<"1", "US">>, <<"2", "WORLD">>, <<"3", "TECH">>, <<"4", "BUSINESS">>,
     <<"5", "SCIENCE">>}

\* lines 146-165: _load_category(category) creates the fetch() task and the
\* update() task that will show its result; nothing else is assigned
LoadCategory(cat) ==
    /\ updates < MaxPending
    /\ loadArg' = <<cat>>
    /\ updates' = updates + 1
    /\ loadStarted' = TRUE

\* a handler that calls nothing
NoLoad ==
    /\ loadStarted' = FALSE
    /\ UNCHANGED <<loadArg, updates>>

\* lines 314-321: _show_settings replaces the children of #main-container,
\* the articles panel among them, by a SettingsView
ShowSettingsView ==
    /\ current_view' = "settings"
    /\ panel' = "absent"

\* lines 134-144: on_mount
OnMount ==
    /\ event.kind = "init"
    /\ event' = Event("mount", "")
    /\ LoadCategory("US")
    /\ UNCHANGED <<current_view, article_view_mode, state_category, viewing,
                   articlesCount, panel, panelMiss>>
    /\ UNCHANGED <<coreVars, notKeys>>

\* lines 167-197: update() resumes when its task is done
UpdatePanel ==
    /\ updates > 0
    /\ updates' = updates - 1
    /\ event' = Event("update", "")
    /\ loadStarted' = FALSE
    /\ \E n \in 0..MaxArticles : articlesCount' = n
    /\ article_view_mode' = "list"
    /\ IF panel = "absent"
       THEN panelMiss' = TRUE /\ UNCHANGED panel
       ELSE panel' = "list" /\ UNCHANGED panelMiss
    /\ UNCHANGED <<current_view, state_category, viewing, loadArg>>
    /\ UNCHANGED <<coreVars, notKeys>>

\* lines 253-264: a category button of the dashboard
ButtonCategory ==
    /\ event.kind # "init"
    /\ current_view = "dashboard"
    /\ \E b \in CategoryMap :
          /\ event' = Event("button", b[1])
          /\ viewing' = b[2]
          /\ LoadCategory(b[2])
    /\ UNCHANGED <<current_view, article_view_mode, state_category,
                   articlesCount, panel, panelMiss>>
    /\ UNCHANGED <<coreVars, notKeys>>

\* lines 301-311: a number key
KeyNumber ==
    /\ event.kind # "init"
    /\ \E k \in KeyMap :
          /\ event' = Event("key", k[1])
          /\ IF current_view = "dashboard"
             THEN viewing' = k[2] /\ LoadCategory(k[2])
             ELSE NoLoad /\ UNCHANGED viewing
    /\ UNCHANGED <<current_view, article_view_mode, state_category,
                   articlesCount, panel, panelMiss>>
    /\ UNCHANGED <<coreVars, notKeys>>

\* lines 242-243: the refresh button of the dashboard
ButtonRefresh ==
    /\ event.kind # "init"
    /\ current_view = "dashboard"
    /\ event' = Event("button", "refresh-btn")
    /\ LoadCategory(state_category)
    /\ UNCHANGED <<current_view, article_view_mode, state_category, viewing,
                   articlesCount, panel, panelMiss>>
    /\ UNCHANGED <<coreVars, notKeys>>

\* lines 278-280: the 'r' key
KeyRefresh ==
    /\ event.kind # "init"
    /\ event' = Event("key", "r")
    /\ IF current_view = "dashboard" THEN LoadCategory(state_category) ELSE NoLoad
    /\ UNCHANGED <<current_view, article_view_mode, state_category, viewing,
                   articlesCount, panel, panelMiss>>
    /\ UNCHANGED <<coreVars, notKeys>>

\* lines 246-252 and 199-228: an article button of the list
ButtonArticle ==
    /\ event.kind # "init"
    /\ panel = "list"
    /\ articlesCount > 0
    /\ event' = Event("button", "article-0")
    /\ article_view_mode' = "detail"
    /\ panel' = "detail"
    /\ NoLoad
    /\ UNCHANGED <<current_view, state_category, viewing, articlesCount, panelMiss>>
    /\ UNCHANGED <<coreVars, notKeys>>

\* lines 270-274: Escape or Backspace; out of detail mode the key falls
\* through every branch
KeyEscape ==
    /\ event.kind # "init"
    /\ \E key \in {"escape", "backspace"} : event' = Event("key", key)
    /\ IF article_view_mode = "detail" THEN LoadCategory(state_category) ELSE NoLoad
    /\ UNCHANGED <<current_view, article_view_mode, state_category, viewing,
                   articlesCount, panel, panelMiss>>
    /\ UNCHANGED <<coreVars, notKeys>>

\* lines 276-277: the 's' key
KeySettings ==
    /\ event.kind # "init"
    /\ event' = Event("key", "s")
    /\ ShowSettingsView
    /\ NoLoad
    /\ UNCHANGED <<article_view_mode, state_category, viewing, articlesCount,
                   panelMiss>>
    /\ UNCHANGED <<coreVars, notKeys>>

\* lines 240-241: the settings button of the dashboard
ButtonSettings ==
    /\ event.kind # "init"
    /\ current_view = "dashboard"
    /\ event' = Event("button", "settings-btn")
    /\ ShowSettingsView
    /\ NoLoad
    /\ UNCHANGED <<article_view_mode, state_category, viewing, articlesCount,
                   panelMiss>>
    /\ UNCHANGED <<coreVars, notKeys>>

\* settings lines 110-111 and main lines 323-363: the Back button of the
\* SettingsView, handled by _show_dashboard, which builds a new dashboard
\* and reloads
BackToDashboard ==
    /\ event.kind # "init"
    /\ current_view = "settings"
    /\ event' = Event("message", "back-btn")
    /\ current_view' = "dashboard"
    /\ panel' = "placeholder"
    /\ LoadCategory(state_category)
    /\ UNCHANGED <<article_view_mode, state_category, viewing, articlesCount,
                   panelMiss>>
    /\ UNCHANGED <<coreVars, notKeys>>

NextKeys ==
    \/ OnMount
    \/ UpdatePanel
    \/ ButtonCategory
    \/ KeyNumber
    \/ ButtonRefresh
    \/ KeyRefresh
    \/ ButtonArticle
    \/ KeyEscape
    \/ KeySettings
    \/ ButtonSettings
    \/ BackToDashboard

SpecKeys == Init /\ [][NextKeys]_vars

(***************************************************************************)
(* Several _load_category requests on the one event loop of the app        *)
(*                                                                         *)
(* A coroutine runs until it awaits; `running` is the request whose        *)
(* coroutine is between two awaits. fetch() awaits fetch_category only;    *)
(* update() awaits the task only.                                          *)
(***************************************************************************)
\* the requests the model follows
MaxLoads == 2

\* one request: the category, the position of its tasks, the list fetch()
\* works on, the INSERTs save_articles has executed
Load(cat, p, r, n) == [category |-> cat, pc |-> p, ret |-> r, idx |-> n]

\* an article as the fetch pipeline hands it out
RaceArticle(id, cat) ==
    Article(id, "Headline " \o id, "", "feed1", cat, "http://x/" \o id, None, None)

\* the lists fetch_category returns for a category; the entry with id "a"
\* comes from a feed configured for both categories (config lines 66-68)
RaceFetched(cat) ==
    IF cat = "TECH"
    THEN {<<>>, <<RaceArticle("a", cat)>>, <<RaceArticle("c", cat), RaceArticle("a", cat)>>}
    ELSE {<<>>, <<RaceArticle("b", cat)>>, <<RaceArticle("a", cat)>>}

\* a save_articles that awaits after each INSERT
SaveYieldsAfterInsert == TRUE

\* cache/__init__.py 50-77: save_articles is a plain def; nothing in it
\* awaits, so the coroutine that calls it keeps the event loop
SaveYields == FALSE

\* lines 146-165, 197: _load_category(category) from a UI handler creates
\* the task of fetch() and the task of update(); neither has run yet
LoadRequest ==
    /\ running = 0
    /\ Len(loads) < MaxLoads
    /\ \E cat \in Categories : loads' = Append(loads, Load(cat, "spawned", <<>>, 0))
    /\ UNCHANGED <<running, doneQ, rtable, selfArticles, shownReq>>
    /\ UNCHANGED <<coreVars, notRace>>

\* lines 148-158: fetch() runs up to its first await: the cache read, and
\* on a hit the return
LoadFetchBegin(i) ==
    /\ running = 0
    /\ loads[i].pc = "spawned"
    /\ \A j \in 1..(i - 1) : loads[j].pc # "spawned"
    /\ \E cached \in GetArticles(rtable, LoadArgs(loads[i].category), now) :
          IF CacheHit(cached)
          THEN /\ loads' = [loads EXCEPT ![i] = Load(@.category, "done", cached, 0)]
               /\ doneQ' = Append(doneQ, i)
          ELSE /\ loads' = [loads EXCEPT ![i] = Load(@.category, "fetching", <<>>, 0)]
               /\ doneQ' = doneQ
    /\ UNCHANGED <<running, rtable, selfArticles, shownReq>>
    /\ UNCHANGED <<coreVars, notRace>>

\* lines 158-161: fetch_category returns; fetch() goes on into
\* save_articles when the list is not empty, else it returns
LoadFetchEnd(i) ==
    /\ running = 0
    /\ loads[i].pc = "fetching"
    /\ \E as \in RaceFetched(loads[i].category) :
          IF as # <<>>
          THEN /\ loads' = [loads EXCEPT ![i] = Load(@.category, "saving", as, 0)]
               /\ running' = i
               /\ doneQ' = doneQ
          ELSE /\ loads' = [loads EXCEPT ![i] = Load(@.category, "done", as, 0)]
               /\ running' = 0
               /\ doneQ' = Append(doneQ, i)
    /\ UNCHANGED <<rtable, selfArticles, shownReq>>
    /\ UNCHANGED <<coreVars, notRace>>

\* cache lines 52-76: the INSERT OR REPLACE of the next article
LoadSaveInsert(i) ==
    /\ running \in {0, i}
    /\ loads[i].pc = "saving"
    /\ loads[i].idx < Len(loads[i].ret)
    /\ rtable' = InsertOrReplace(rtable, RowOfArticle(loads[i].ret[loads[i].idx + 1], now))
    /\ loads' = [loads EXCEPT ![i].idx = @ + 1]
    /\ running' = IF SaveYields THEN 0 ELSE i
    /\ UNCHANGED <<doneQ, selfArticles, shownReq>>
    /\ UNCHANGED <<coreVars, notRace>>

\* cache line 77 and main line 161: the commit, then fetch() returns
LoadSaveCommit(i) ==
    /\ running \in {0, i}
    /\ loads[i].pc = "saving"
    /\ loads[i].idx = Len(loads[i].ret)
    /\ loads' = [loads EXCEPT ![i].pc = "done"]
    /\ running' = 0
    /\ doneQ' = Append(doneQ, i)
    /\ UNCHANGED <<rtable, selfArticles, shownReq>>
    /\ UNCHANGED <<coreVars, notRace>>

\* lines 171-172: update() resumes from `await task` and assigns
\* self.articles; the event loop resumes the updates in the order in which
\* their tasks were done
LoadUpdate(i) ==
    /\ running = 0
    /\ loads[i].pc = "done"
    /\ doneQ # <<>> /\ Head(doneQ) = i
    /\ doneQ' = Tail(doneQ)
    /\ selfArticles' = loads[i].ret
    /\ shownReq' = i
    /\ loads' = [loads EXCEPT ![i].pc = "shown"]
    /\ UNCHANGED <<running, rtable>>
    /\ UNCHANGED <<coreVars, notRace>>

\* cache lines 126-134: mark_as_read or mark_as_bookmarked called from
\* synchronous code of the app: the UPDATE and its commit
RaceMark ==
    /\ running = 0
    /\ \/ rtable' = MarkAsRead(rtable, "a", TRUE)
       \/ rtable' = MarkAsBookmarked(rtable, "a", TRUE)
    /\ rtable' # rtable
    /\ UNCHANGED <<loads, running, doneQ, selfArticles, shownReq>>
    /\ UNCHANGED <<coreVars, notRace>>

NextRace ==
    \/ LoadRequest
    \/ RaceMark
    \/ \E i \in 1..Len(loads) : LoadFetchBegin(i)
    \/ \E i \in 1..Len(loads) : LoadFetchEnd(i)
    \/ \E i \in 1..Len(loads) : LoadSaveInsert(i)
    \/ \E i \in 1..Len(loads) : LoadSaveCommit(i)
    \/ \E i \in 1..Len(loads) : LoadUpdate(i)

SpecRace == Init /\ [][NextRace]_vars

(***************************************************************************)
(* Vocabulary of the fetch_category properties                             *)
(***************************************************************************)
Finished == pc \in {"returned", "raised"}

NumTasks == Len(tasks)

Observed(i) == tstate[i] = "done" /\ ~IsNone(tout[i])

\* the outcome of the i-th task: what its coroutine returned or raised
TaskResult(i) == Val(tout[i])

\* the i-th task raised
Raised(i) == TaskResult(i).kind = "exc"

\* the articles the i-th task produced (none when it raised)
Arts(i) == IF Raised(i) THEN <<>> ELSE TaskResult(i).articles

\* the i-th source failed
SourceFailed(i) == Observed(i) /\ tfailed[i]

\* the i-th source succeeded with at least one article
SourceSucceeded(i) ==
    /\ Observed(i)
    /\ ~SourceFailed(i)
    /\ Arts(i) # <<>>

AllObserved == \A i \in 1..NumTasks : Observed(i)

\* the positions <<task, index>> of the produced articles, and merge order
Produced == UNION {{<<i, p>> : p \in 1..Len(Arts(i))} : i \in 1..NumTasks}
At(x) == Arts(x[1])[x[2]]
Before(x, y) == x[1] < y[1] \/ (x[1] = y[1] /\ x[2] < y[2])

RetIds == {ret[k].id : k \in 1..Len(ret)}
RetSet == {ret[k] : k \in 1..Len(ret)}

RECURSIVE Flatten(_)
Flatten(ss) == IF ss = <<>> THEN <<>> ELSE Head(ss) \o Flatten(Tail(ss))

\* s without every element whose id occurs earlier in s
RECURSIVE DropLaterDuplicates(_)
DropLaterDuplicates(s) ==
    IF s = <<>> THEN <<>>
    ELSE LET init == SubSeq(s, 1, Len(s) - 1)
             last == s[Len(s)]
         IN  IF \E j \in 1..Len(init) : init[j].id = last.id
             THEN DropLaterDuplicates(init)
             ELSE Append(DropLaterDuplicates(init), last)

\* the articles produced for the source with this name
ArticlesOfSource(name) ==
    LET I == {i \in 1..NumTasks : tasks[i].name = name}
    IN  IF I = {} THEN <<>> ELSE Arts(CHOOSE i \in I : TRUE)

(***************************************************************************)
(* C1: when some source yields a non-empty article list while other        *)
(* sources fail, fetch_category returns without raising, the result is     *)
(* non-empty and every returned article comes from a source that did not   *)
(* fail (a failed source contributes nothing).                             *)
(***************************************************************************)
C1_PartialFailure ==
    (/\ Finished
     /\ AllObserved
     /\ \E i \in 1..NumTasks : SourceSucceeded(i)
     /\ \E j \in 1..NumTasks : SourceFailed(j))
    => /\ pc = "returned"
       /\ ret # <<>>
       /\ \A k \in 1..Len(ret) :
             \E i \in 1..NumTasks : ~SourceFailed(i) /\ ret[k].source = tasks[i].name
       /\ \A j \in 1..NumTasks :
             SourceFailed(j) => \A k \in 1..Len(ret) : ret[k].source # tasks[j].name

\* reached: a call returned articles although one source failed in its
\* fetch and another source raised in its task
C1_Witness ==
    /\ pc = "returned"
    /\ ret # <<>>
    /\ \E i \in 1..NumTasks : SourceSucceeded(i)
    /\ \E j \in 1..NumTasks : SourceFailed(j) /\ ~Raised(j)
    /\ \E j \in 1..NumTasks : SourceFailed(j) /\ Raised(j)

(***************************************************************************)
(* C2: when two produced articles (of the same task or of different        *)
(* tasks) have the same id, the returned list holds exactly one article    *)
(* with that id, and it is the first of them in submission order (and      *)
(* first within its task).                                                 *)
(***************************************************************************)
C2_FirstOccurrenceWins ==
    (pc = "returned" /\ AllObserved)
    => \A x \in Produced, y \in Produced :
          (Before(x, y) /\ At(x).id = At(y).id)
          => /\ Cardinality({k \in 1..Len(ret) : ret[k].id = At(x).id}) = 1
             /\ \A k \in 1..Len(ret) :
                   ret[k].id = At(x).id
                   => \E f \in Produced :
                         /\ At(f).id = At(x).id
                         /\ \A g \in Produced : At(g).id = At(x).id => ~Before(g, f)
                         /\ ret[k] = At(f)

\* reached: two different sources produced the id "a" as different
\* articles, and one source produced the same id twice
C2_Witness ==
    /\ pc = "returned"
    /\ AllObserved
    /\ \E x \in Produced, y \in Produced :
          x[1] < y[1] /\ At(x).id = At(y).id /\ At(x) # At(y)
    /\ \E x \in Produced, y \in Produced :
          x[1] = y[1] /\ x[2] < y[2] /\ At(x).id = At(y).id

(***************************************************************************)
(* C3: the returned list is a function of the per-task results in          *)
(* submission order only; the order in which the tasks finished has no     *)
(* influence on the order of the list or on the duplicate that is kept.    *)
(***************************************************************************)
C3_CompletionOrderIrrelevant ==
    (pc = "returned" /\ AllObserved) => ret = MergeResults(tout)

\* reached: a later task finished first, and two tasks produced the same
\* id as different articles
C3_Witness ==
    /\ pc = "returned"
    /\ AllObserved
    /\ reordered
    /\ \E x \in Produced, y \in Produced :
          x[1] < y[1] /\ At(x).id = At(y).id /\ At(x) # At(y)

(***************************************************************************)
(* C4: fetch_category is a join: when it has returned (or raised), every   *)
(* task it started has finished and its outcome is in the result list of   *)
(* gather; no task is left unfinished because another task failed.         *)
(***************************************************************************)
C4_JoinNotRace ==
    Finished
    => \A i \in 1..NumTasks : tstate[i] = "done" /\ ~IsNone(results[i])

\* reached: the call returned with one task that raised and another task
\* that delivered articles
C4_Witness ==
    /\ pc = "returned"
    /\ NumTasks >= 2
    /\ \E i \in 1..NumTasks : Observed(i) /\ Raised(i)
    /\ \E j \in 1..NumTasks : SourceSucceeded(j)

C6_NoSources ==
    (pc # "idle" /\ feeds = <<>> /\ scraping = <<>>)
    => /\ gets = 0
       /\ pc # "raised"
       /\ pc = "returned" => ret = <<>>

\* reached: such a call has returned
C6_Witness ==
    /\ pc = "returned"
    /\ feeds = <<>>
    /\ scraping = <<>>
    /\ category \in Categories

(***************************************************************************)
(* C7: when every source of the call fails, fetch_category returns the     *)
(* empty list and does not raise.                                          *)
(***************************************************************************)
C7_AllSourcesFail ==
    (/\ Finished
     /\ NumTasks >= 1
     /\ \A i \in 1..NumTasks : SourceFailed(i))
    => pc = "returned" /\ ret = <<>>

\* reached: every source of a call with three tasks failed, one of them
\* by raising in its task
C7_Witness ==
    /\ pc = "returned"
    /\ NumTasks >= 3
    /\ \A i \in 1..NumTasks : SourceFailed(i)
    /\ \E i \in 1..NumTasks : Raised(i)
    /\ \E i \in 1..NumTasks : ~Raised(i)

(***************************************************************************)
(* C8: the ids of the returned list are pairwise distinct, every returned  *)
(* article was produced by a task of the call, and a produced article is   *)
(* absent from the list only if an article earlier in merge order has the  *)
(* same id.                                                                *)
(***************************************************************************)
C8_MergeInvariant ==
    (pc = "returned" /\ AllObserved)
    => /\ \A k \in 1..Len(ret), l \in 1..Len(ret) : ret[k].id = ret[l].id => k = l
       /\ \A k \in 1..Len(ret) : \E x \in Produced : At(x) = ret[k]
       /\ \A x \in Produced :
             At(x) \notin RetSet
             => \E y \in Produced : Before(y, x) /\ At(y).id = At(x).id

\* reached: a task whose first article is a duplicate of an earlier task's
\* article and whose second article is new
C8_Witness ==
    /\ pc = "returned"
    /\ AllObserved
    /\ \E x \in Produced, y \in Produced, z \in Produced :
          /\ x[1] < y[1]
          /\ At(x).id = At(y).id
          /\ z[1] = y[1] /\ z[2] = y[2] + 1
          /\ At(z) \in RetSet
          /\ At(y) \notin RetSet

(***************************************************************************)
(* Vocabulary of the cache properties                                      *)
(***************************************************************************)
\* equal on every field except possibly cached_at
SameExceptCachedAt(x, y) ==
    [x EXCEPT !.cached_at = None] = [y EXCEPT !.cached_at = None]

\* the last two calls were save_articles([A]) and then get_articles
SavedThenGot == Len(lastSaved) = 1 /\ ~IsNone(gotArgs)

(***************************************************************************)
(* C9: cache round trip: after save_articles([A]), the list returned by    *)
(* get_articles(category=A.category, max_age_hours=1) holds an article     *)
(* equal to A on every field except possibly cached_at.                    *)
(***************************************************************************)
C9_RoundTrip ==
    (/\ SavedThenGot
     /\ Val(gotArgs) = GetArgs(Some(lastSaved[1].category), Some(1), DefaultLimit))
    => \E k \in 1..Len(got) : SameExceptCachedAt(got[k], lastSaved[1])

(***************************************************************************)
(* C10: cache expiry: get_articles with max_age_hours=0 returns no         *)
(* article, whatever was saved before, also right after a save.            *)
(***************************************************************************)
C10_ExpiryAtZero ==
    (~IsNone(gotArgs) /\ Val(gotArgs).max_age_hours = Some(0))
    => got = <<>>

(***************************************************************************)
(* Vocabulary of the get_articles / get_bookmarked_articles properties     *)
(***************************************************************************)
\* the stored instants of a row, as clock readings
StoredCachedAt(r) == FromIsoFormat(Val(r.cached_at))

\* the row satisfies the filters of the call, stated on categories and on
\* clock readings
Matches(r, args) ==
    /\ IsNone(args.category) \/ CategoryOf(Val(r.category)) = Val(args.category)
    /\ \/ IsNone(args.max_age_hours)
       \/ now - StoredCachedAt(r) <= Val(args.max_age_hours) * TicksPerHour

\* the stored articles that satisfy the filters of the call
Matching(args) == {ArticleOfRow(r) : r \in {q \in table : Matches(q, args)}}

\* x was published before y; an article without published_at counts as
\* older than every article with one
PublishedBefore(x, y) ==
    IF IsNone(y.published_at) THEN FALSE
    ELSE IF IsNone(x.published_at) THEN TRUE
    ELSE Val(x.published_at) < Val(y.published_at)

\* the list is in descending order of published_at
NewestFirst(list) ==
    \A i \in 1..Len(list), j \in 1..Len(list) :
        i < j => ~PublishedBefore(list[i], list[j])

ListSet(list) == {list[k] : k \in 1..Len(list)}

\* the list holds `lim` articles of S, none of them older than an article
\* of S that is left out (all of S when S has at most `lim` articles)
NewestOf(list, S, lim) ==
    /\ ListSet(list) \subseteq S
    /\ Len(list) = Cardinality(ListSet(list))
    /\ Len(list) = Min(Cardinality(S), lim)
    /\ \A x \in ListSet(list), y \in S \ ListSet(list) : ~PublishedBefore(x, y)

C12_LimitNewestFirst ==
    ~IsNone(gotArgs)
    => /\ Len(got) <= Val(gotArgs).limit
       /\ NewestFirst(got)
       /\ NewestOf(got, Matching(Val(gotArgs)), Val(gotArgs).limit)

\* reached: limit 1 with two matching articles that both have a
\* published_at, and the newer one is the one returned
C12_Witness ==
    /\ ~IsNone(gotArgs)
    /\ Val(gotArgs).limit = 1
    /\ Len(got) = 1
    /\ \E y \in Matching(Val(gotArgs)) :
          /\ ~IsNone(y.published_at)
          /\ PublishedBefore(y, got[1])

(***************************************************************************)
(* Vocabulary of the properties of the writing calls                       *)
(***************************************************************************)
\* the ids of the articles of a batch
BatchIds(batch) == {batch[k].id : k \in 1..Len(batch)}

\* the k-th article of the batch is the last one with its id
LastWithId(batch, k) == \A j \in (k + 1)..Len(batch) : batch[j].id # batch[k].id

\* the rows of the table with that id
RowsWithId(tbl, id) == {r \in tbl : r.id = id}

\* the articles the table holds
StoredArticles(tbl) == {ArticleOfRow(r) : r \in tbl}

\* a fresh article: as the fetch pipeline builds it, flags clear and
\* without cached_at
Fresh(a) == IsNone(a.cached_at) /\ ~a.is_read /\ ~a.is_bookmarked

(***************************************************************************)
(* C13: save_articles is an upsert by id that overwrites everything: after *)
(* a save the table holds exactly one row per id, the row of a saved id    *)
(* equals the last article of the batch with that id on every field        *)
(* (is_read and is_bookmarked included; cached_at aside), and the rows     *)
(* whose id is not in the batch are unchanged.                             *)
(***************************************************************************)
C13_SaveOverwrites ==
    [][call'.op = "save_articles"
       => /\ \A id \in BatchIds(lastSaved') : Cardinality(RowsWithId(table', id)) = 1
          /\ \A r \in table' : Cardinality(RowsWithId(table', r.id)) = 1
          /\ \A k \in 1..Len(lastSaved') :
                LastWithId(lastSaved', k)
                => \A r \in RowsWithId(table', lastSaved'[k].id) :
                      SameExceptCachedAt(ArticleOfRow(r), lastSaved'[k])
          /\ \A r \in table : r.id \notin BatchIds(lastSaved') => r \in table'
          /\ \A r \in table' : r.id \notin BatchIds(lastSaved') => r \in table]_vars

\* reached: a batch with the same id twice was saved into a table that
\* holds other rows, and the stored flags are those of the second article
C13_Witness ==
    /\ call.op = "save_articles"
    /\ Len(lastSaved) = 2
    /\ lastSaved[1].id = lastSaved[2].id
    /\ lastSaved[1].is_read # lastSaved[2].is_read
    /\ Cardinality(table) >= 2
    /\ \E r \in table : r.id = lastSaved[2].id /\ (r.is_read = 1) = lastSaved[2].is_read

(***************************************************************************)
(* C14: read/bookmark flags survive a refresh: when mark_as_read(id, true) *)
(* (mark_as_bookmarked(id, true)) set the flag of a stored row and a fresh *)
(* article with the same id is saved next, the stored is_read              *)
(* (is_bookmarked) of that id is still true.                               *)
(***************************************************************************)
C14_FlagsSurviveRefresh ==
    [][(/\ call.op \in {"mark_as_read", "mark_as_bookmarked"}
        /\ call.value
        /\ call.rowcount = 1
        /\ call'.op = "save_articles"
        /\ Len(lastSaved') = 1
        /\ lastSaved'[1].id = call.id
        /\ Fresh(lastSaved'[1]))
       => \A r \in RowsWithId(table', call.id) :
             IF call.op = "mark_as_read" THEN r.is_read = 1 ELSE r.is_bookmarked = 1]_vars

(***************************************************************************)
(* C15: cached_at is set by the store at write time: after save_articles   *)
(* the stored cached_at of every article of the batch is the time of the   *)
(* save, whatever cached_at the article object carried.                    *)
(***************************************************************************)
C15_CachedAtIsWriteTime ==
    call.op = "save_articles"
    => \A id \in BatchIds(lastSaved) :
          \A r \in RowsWithId(table, id) : StoredCachedAt(r) = now

(***************************************************************************)
(* C16: mark_as_read(id, v) and mark_as_bookmarked(id, v) are point        *)
(* updates: the row with that id gets that flag set to v and is otherwise  *)
(* unchanged, every other row is unchanged, no row appears or disappears,  *)
(* and when no row has that id the table is unchanged.                     *)
(***************************************************************************)
C16_PointUpdate ==
    [][call'.op \in {"mark_as_read", "mark_as_bookmarked"}
       => LET flag == IF call'.value THEN 1 ELSE 0 IN
          /\ \A r \in table : r.id # call'.id => r \in table'
          /\ \A r \in table :
                r.id = call'.id
                => IF call'.op = "mark_as_read"
                   THEN [r EXCEPT !.is_read = flag] \in table'
                   ELSE [r EXCEPT !.is_bookmarked = flag] \in table'
          /\ Cardinality(table') = Cardinality(table)
          /\ RowsWithId(table, call'.id) = {} => table' = table]_vars

\* reached: mark_as_read(id, true) changed one row of a table that holds
\* another row whose flag is clear, and the bookmark flag of the marked
\* row is still clear
C16_Witness ==
    /\ call.op = "mark_as_read"
    /\ call.value
    /\ call.rowcount = 1
    /\ \E r \in table : r.id = call.id /\ r.is_read = 1 /\ r.is_bookmarked = 0
    /\ \E r \in table : r.id # call.id /\ r.is_read = 0

(***************************************************************************)
(* C17: get_bookmarked_articles(limit) returns only stored articles whose  *)
(* is_bookmarked flag is set, all of them when there are at most `limit`   *)
(* (whatever their category and the age of their cached_at), newest        *)
(* published_at first, and never more than `limit`.                        *)
(***************************************************************************)
C17_Bookmarked ==
    call.op = "get_bookmarked_articles"
    => LET marked == {a \in StoredArticles(table) : a.is_bookmarked} IN
       /\ Len(got) <= call.limit
       /\ NewestFirst(got)
       /\ NewestOf(got, marked, call.limit)

\* reached: two bookmarked articles of different categories were returned,
\* one of them cached more than six hours ago, newest first, while the
\* table holds an article that is not bookmarked
C17_Witness ==
    /\ call.op = "get_bookmarked_articles"
    /\ Len(got) = 2
    /\ got[1].category # got[2].category
    /\ PublishedBefore(got[2], got[1])
    /\ \E k \in 1..2 : now - Val(got[k].cached_at) > 6 * TicksPerHour
    /\ \E a \in StoredArticles(table) : ~a.is_bookmarked

(***************************************************************************)
(* C18: clear_old_articles(d) deletes exactly the rows whose cached_at is  *)
(* before now minus d days: the rows at or after the cutoff are unchanged, *)
(* and a read returns only articles of rows that are in the table, so a    *)
(* deleted row is in no later read.                                        *)
(***************************************************************************)
C18_ClearOld ==
    [][/\ call'.op = "clear_old_articles"
          => table' = {r \in table : StoredCachedAt(r) >= now - call'.days * TicksPerDay}
       /\ call'.op \in {"get_articles", "get_bookmarked_articles"}
          => ListSet(got') \subseteq StoredArticles(table')]_vars

\* reached: a clear deleted a row and kept a row whose cached_at is
\* exactly the cutoff
C18_Witness ==
    /\ call.op = "clear_old_articles"
    /\ call.rowcount >= 1
    /\ \E r \in table : StoredCachedAt(r) = now - call.days * TicksPerDay

(***************************************************************************)
(* Vocabulary of the parser properties                                     *)
(***************************************************************************)
\* the first of id, link, title that is present
FirstPresent(e) ==
    IF ~IsNone(e.id) THEN e.id ELSE IF ~IsNone(e.link) THEN e.link ELSE e.title

\* the id if it is present and not empty, else the link if it is present
\* and not empty, else the title
FirstNonEmpty(e) ==
    IF TruthyStr(e.id) THEN e.id ELSE IF TruthyStr(e.link) THEN e.link ELSE e.title

Parsed == pentries # <<>>

(***************************************************************************)
(* C20 as stated: the article id of an entry is the first of id, link,     *)
(* title that is present, so two entries whose first present values        *)
(* differ get different article ids.                                       *)
(***************************************************************************)
C20_IdPriority ==
    Parsed
    => /\ \A k \in 1..Len(particles) :
             ~IsNone(FirstPresent(pentries[k]))
             => particles[k].id = Val(FirstPresent(pentries[k]))
       /\ \A j \in 1..Len(particles), k \in 1..Len(particles) :
             (/\ ~IsNone(FirstPresent(pentries[j]))
              /\ ~IsNone(FirstPresent(pentries[k]))
              /\ FirstPresent(pentries[j]) # FirstPresent(pentries[k]))
             => particles[j].id # particles[k].id

(***************************************************************************)
(* C20 amended: the article id of an entry is its id when present and not  *)
(* empty, otherwise its link when present and not empty, otherwise its     *)
(* title, so two entries whose first non-empty values differ get           *)
(* different article ids.                                                  *)
(***************************************************************************)
C20_IdPriorityNonEmpty ==
    Parsed
    => /\ \A k \in 1..Len(particles) :
             ~IsNone(FirstNonEmpty(pentries[k]))
             => particles[k].id = Val(FirstNonEmpty(pentries[k]))
       /\ \A j \in 1..Len(particles), k \in 1..Len(particles) :
             (/\ TruthyStr(FirstNonEmpty(pentries[j]))
              /\ TruthyStr(FirstNonEmpty(pentries[k]))
              /\ FirstNonEmpty(pentries[j]) # FirstNonEmpty(pentries[k]))
             => particles[j].id # particles[k].id

\* reached: an entry with an empty id got its link as article id, next to
\* an entry that has id and link and got its id
C20_Witness ==
    /\ Parsed
    /\ Len(particles) >= 2
    /\ pentries[1].id = Some("")
    /\ TruthyStr(pentries[1].link)
    /\ particles[1].id = Val(pentries[1].link)
    /\ TruthyStr(pentries[2].id)
    /\ TruthyStr(pentries[2].link)
    /\ pentries[2].id # pentries[2].link
    /\ particles[2].id = Val(pentries[2].id)
    /\ particles[1].id # particles[2].id

(***************************************************************************)
(* C19: cache-first load: _load_category starts fetch_category only when   *)
(* the cache holds no article of the category cached within six hours; on  *)
(* a hit it returns cached articles without a fetch and without a cache    *)
(* write; on a miss a non-empty fetched list is in the cache when it is    *)
(* returned, and an empty one leaves the cache unchanged.                  *)
(***************************************************************************)
C19_CacheFirstLoad ==
    [][/\ (pc # "gathering" /\ pc' = "gathering")
          => /\ Matching(LoadArgs(lcategory')) = {}
             /\ table' = table
       /\ (lpc = "idle" /\ lpc' \in {"hit", "fetching"})
          => (lpc' = "hit" <=> Matching(LoadArgs(lcategory')) # {})
       /\ (lpc = "idle" /\ lpc' = "hit")
          => /\ lret' # <<>>
             /\ ListSet(lret') \subseteq Matching(LoadArgs(lcategory'))
             /\ table' = table
             /\ UNCHANGED <<pc, gets, tasks>>
       /\ (lpc = "fetching" /\ lpc' = "fetching") => table' = table
       /\ (lpc = "fetching" /\ lpc' = "missed")
          => /\ lret' = ret
             /\ IF ret # <<>>
                THEN /\ \A k \in 1..Len(ret) :
                           \E r \in table' : SameExceptCachedAt(ArticleOfRow(r), ret[k])
                     /\ \A r \in table : r.id \notin BatchIds(ret) => r \in table'
                ELSE table' = table]_vars

\* reached: a load missed although the cache holds an article of the
\* category (cached more than six hours ago), and the fetched articles
\* are in the cache next to it
C19_Witness ==
    /\ lpc = "missed"
    /\ lret # <<>>
    /\ \A k \in 1..Len(lret) : \E r \in table : r.id = lret[k].id /\ StoredCachedAt(r) = now
    /\ \E r \in table :
          /\ r.id \notin BatchIds(lret)
          /\ CategoryOf(Val(r.category)) = lcategory
          /\ now - StoredCachedAt(r) > CacheMaxAgeHours * TicksPerHour

(***************************************************************************)
(* C21: fetch_from_rss yields exactly one article per entry for the first  *)
(* min(limit, number of entries) entries, in feed order, and drops none:   *)
(* an entry without a title still yields an article, whose headline is     *)
(* the empty string.                                                       *)
(***************************************************************************)
C21_OneArticlePerEntry ==
    Parsed
    => /\ Len(particles) = Min(plimit, Len(pentries))
       /\ \A k \in 1..Len(particles) :
             /\ particles[k].headline = GetOr(pentries[k].title, "")
             /\ particles[k].url = GetOr(pentries[k].link, "")
             /\ IsNone(pentries[k].title) => particles[k].headline = ""

\* reached: a feed longer than the limit whose first entry has no title
\* was cut to the limit, and the first article has the empty headline
C21_Witness ==
    /\ Parsed
    /\ plimit < Len(pentries)
    /\ Len(particles) = plimit
    /\ IsNone(pentries[1].title)
    /\ IsNone(pentries[1].id)
    /\ particles[1].headline = ""

(***************************************************************************)
(* Vocabulary of the scrape properties                                     *)
(***************************************************************************)
Scraped == pnodes # <<>>

\* the anchor of a node: the node itself if it is an anchor, else its
\* descendant anchor; <<>> if it has none
Anchor(n) == IF n.name = "a" THEN <<[href |-> n.href, text |-> n.text]>> ELSE n.child

\* the node has a resolvable link: an anchor with a non-empty href
Linkable(n) ==
    /\ Anchor(n) # <<>>
    /\ Anchor(n)[1].href # <<>>
    /\ Anchor(n)[1].href[1] # ""

\* the nodes of the page the selector matches, in DOM order
SelectedNodes == SelectSeq(pnodes, LAMBDA n : pselector \in n.matches)

\* those of them that have a resolvable link
LinkableNodes == SelectSeq(SelectedNodes, Linkable)

(***************************************************************************)
(* C22: fetch_from_scrape skips the selected nodes without a resolvable    *)
(* link and returns the articles of the first `limit` linkable nodes in    *)
(* DOM order: min(limit, number of linkable selected nodes) articles.      *)
(***************************************************************************)
C22_SkipThenTruncate ==
    Scraped
    => /\ Len(particles) = Min(plimit, Len(LinkableNodes))
       /\ \A k \in 1..Min(Len(particles), Len(LinkableNodes)) :
             particles[k].headline = Anchor(LinkableNodes[k])[1].text

(***************************************************************************)
(* Vocabulary of the _fetch_text properties                                *)
(***************************************************************************)
\* the call has left _fetch_text
Left(c) == c.pc \in {"returned", "raised"}

\* the GET got a response with a 2xx status
Successful(resp) == resp.kind = "http" /\ resp.status >= 200 /\ resp.status < 300

(***************************************************************************)
(* C23: _fetch_text performs exactly one GET per call (no retry), returns  *)
(* the body only for a successful response, returns None for every non-2xx *)
(* status, timeout or network error, and never raises to its caller.       *)
(***************************************************************************)
C23_OneGetNoRaise ==
    \A i \in 1..MaxCalls :
        LET c == hcalls[i] IN
        /\ c.gets <= 1
        /\ c.pc # "raised"
        /\ c.pc = "returned"
           => /\ c.gets = 1
              /\ ~IsNone(c.ret) => Successful(c.resp) /\ c.ret = Some(c.resp.text)
              /\ ~Successful(c.resp) => IsNone(c.ret)

\* one call returned None after a timeout, another returned the body of a
\* 200 response
C23_Witness ==
    \E i, j \in 1..MaxCalls :
        /\ hcalls[i].pc = "returned" /\ hcalls[i].resp.kind = "timeout"
        /\ IsNone(hcalls[i].ret) /\ hcalls[i].gets = 1
        /\ hcalls[j].pc = "returned" /\ hcalls[j].resp.kind = "http"
        /\ hcalls[j].resp.status = 200 /\ hcalls[j].ret = Some(hcalls[j].resp.text)

(***************************************************************************)
(* C24: every session _fetch_text created itself is closed when the call   *)
(* has left, on the success path, the non-200 path and the exception path; *)
(* a session supplied to the constructor is used by every call and is      *)
(* never closed by the handler.                                            *)
(***************************************************************************)
C24_NoSessionLeak ==
    /\ extOpen
    /\ \A i \in 1..MaxCalls :
          LET c == hcalls[i] IN
          /\ Left(c) /\ c.session = "own" => ~c.open
          /\ external /\ c.pc # "idle" => c.session = "external"
          /\ ~external /\ c.pc # "idle" => c.session = "own"

\* two calls that created their own session have left, one on the exception
\* path and one on the non-200 path, and both sessions are closed
C24_Witness ==
    \E i, j \in 1..MaxCalls :
        /\ Left(hcalls[i]) /\ hcalls[i].session = "own" /\ hcalls[i].resp.kind = "neterr"
        /\ Left(hcalls[j]) /\ hcalls[j].session = "own" /\ hcalls[j].resp.kind = "http"
        /\ hcalls[j].resp.status = 404
        /\ ~hcalls[i].open /\ ~hcalls[j].open

(***************************************************************************)
(* Vocabulary of the fetch-pipeline properties                             *)
(***************************************************************************)
\* the local-only fields of the article are as the dataclass defaults them
Unflagged(a) ==
    /\ ~a.is_read
    /\ ~a.is_bookmarked
    /\ IsNone(a.cached_at)
    /\ IsNone(a.content)

AllUnflagged(as) == \A k \in 1..Len(as) : Unflagged(as[k])

\* the step is one of a task of fetch_category (its GET starts or ends)
TaskStep == Len(tasks') = Len(tasks) /\ \E i \in 1..Len(tasks) : tstate'[i] # tstate[i]

\* the step is the return of fetch_category
FetchReturnStep == pc = "gathering" /\ pc' \in {"returned", "raised"}

(***************************************************************************)
(* C25: every article returned by fetch_from_rss, fetch_from_scrape and    *)
(* fetch_category has is_read = false, is_bookmarked = false, no cached_at *)
(* and no content, and no step of the fetch pipeline calls the cache.      *)
(***************************************************************************)
C25_FetchSetsNoLocalField ==
    [][/\ TaskStep \/ FetchReturnStep => UNCHANGED cacheVars
       /\ \A i \in 1..Len(tout') :
             ~IsNone(tout'[i]) => AllUnflagged(Val(tout'[i]).articles)
       /\ AllUnflagged(ret')]_vars

\* fetch_category returned articles of a feed and of a scraped page
C25_Witness ==
    /\ pc = "returned"
    /\ \E k \in 1..Len(ret) : ret[k].source = "scrape1"
    /\ \E k \in 1..Len(ret) : ret[k].source = "feed1"
    /\ \E i \in 1..Len(tout) : ~IsNone(tout[i]) /\ Val(tout[i]).articles # <<>>

(***************************************************************************)
(* Vocabulary of the save properties                                       *)
(***************************************************************************)
\* the committed rows hold a row written from an article of the batch with
\* the id of article k
StoredOnDisk(k) ==
    \E r \in sdisk :
        /\ r.id = sbatch[k].id
        /\ \E j \in 1..Len(sbatch) : r = RowOfArticle(sbatch[j], now)

(***************************************************************************)
(* C26: a failure of the store during save_articles is propagated:         *)
(* save_articles never returns normally when an article of the batch was   *)
(* not stored.                                                             *)
(***************************************************************************)
C26_SaveFailurePropagates ==
    spc = "returned" => \A k \in 1..Len(sbatch) : StoredOnDisk(k)

\* the store failed after the first INSERT of a batch of two: the call
\* raised and the second article is not stored
C26_Witness ==
    /\ spc = "raised"
    /\ Len(sbatch) = 2
    /\ sidx = 1
    /\ ~StoredOnDisk(2)

(***************************************************************************)
(* Vocabulary of the concurrent-load properties                            *)
(***************************************************************************)
\* request i is inside save_articles: entered, not yet committed
InSave(i) == loads[i].pc = "saving"

\* the step leaves request j as it is
Untouched(j) == j \in 1..Len(loads') /\ loads'[j] = loads[j]

\* every requested load has completed and its update() has run
AllShown == loads # <<>> /\ \A i \in 1..Len(loads) : loads[i].pc = "shown"

(***************************************************************************)
(* C27: cache writes are serialized: with several category loads in        *)
(* flight, a save_articles runs from its start to its commit without a     *)
(* step of another load, and so without another cache operation, between.  *)
(***************************************************************************)
C27_WritesSerialized ==
    [][\A i \in 1..Len(loads) :
          InSave(i)
          => /\ Len(loads') = Len(loads)
             /\ \A j \in 1..Len(loads) : j # i => Untouched(j)
             /\ loads'[i] # loads[i]
             /\ rtable' \in {rtable,
                              InsertOrReplace(rtable,
                                  RowOfArticle(loads[i].ret[loads'[i].idx], now))}]_vars

\* a load is between two INSERTs of its save_articles while another load
\* is in flight
C27_Witness ==
    \E i, j \in 1..Len(loads) :
        /\ i # j
        /\ InSave(i) /\ loads[i].idx = 1 /\ Len(loads[i].ret) = 2
        /\ loads[j].pc \in {"spawned", "fetching"}

(***************************************************************************)
(* C28: once every requested load has completed, self.articles holds the   *)
(* result of the most recently requested load: a load that finishes after  *)
(* a newer request was made does not overwrite the newer result.           *)
(***************************************************************************)
C28_LatestRequestShown ==
    AllShown => selfArticles = loads[Len(loads)].ret

(***************************************************************************)
(* C29: fetch_category builds exactly one fetch+parse task for every       *)
(* element of feeds and for every element of scraping, and all of them are *)
(* started before the call waits for any result.                           *)
(***************************************************************************)
C29_OneTaskPerSource ==
    pc # "idle"
    => /\ Len(tasks) = Len(feeds) + Len(scraping)
       /\ \A k \in 1..Min(Len(feeds), Len(tasks)) :
             tasks[k].kind = "rss" /\ tasks[k].url = feeds[k].url
       /\ \A k \in 1..Len(scraping) :
             Len(feeds) + k <= Len(tasks)
             => /\ tasks[Len(feeds) + k].kind = "scrape"
                /\ tasks[Len(feeds) + k].url = scraping[k].url

(***************************************************************************)
(* C30: current_view is always 'dashboard' or 'settings' and starts as     *)
(* 'dashboard'; _show_settings sets it to 'settings'; a press of Back in   *)
(* the settings view posts exactly one BackToDashboardMessage; every       *)
(* BackToDashboardMessage the app handles sets current_view to             *)
(* 'dashboard'; and so for any number of settings/back cycles.             *)
(***************************************************************************)
C30_ViewNavigation ==
    [][/\ shows = 0 /\ handled = 0 => current_view = "dashboard"
       /\ current_view \in {"dashboard", "settings"}
       /\ current_view' \in {"dashboard", "settings"}
       /\ shows' = shows + 1 => current_view' = "settings"
       /\ presses' = presses + 1 => backQ' = backQ + 1
       /\ handled' = handled + 1 => current_view' = "dashboard"]_vars

\* the third cycle is complete: settings were shown three times, Back was
\* pressed three times, the three messages are handled
C30_Witness ==
    /\ shows = 3 /\ presses = 3 /\ handled = 3
    /\ backQ = 0
    /\ current_view = "dashboard"

(***************************************************************************)
(* Vocabulary of the configuration properties                              *)
(***************************************************************************)
\* the positions in cfg of the feeds that list the category, ascending
RECURSIVE ListedFrom(_, _, _)
ListedFrom(cfg, c, k) ==
    IF k > Len(cfg) THEN <<>>
    ELSE IF c \in cfg[k].categories THEN <<k>> \o ListedFrom(cfg, c, k + 1)
    ELSE ListedFrom(cfg, c, k + 1)

\* a get_feeds_for_category call has been made
Queried == qcat # ""

(***************************************************************************)
(* C31: get_feeds_for_category(c) returns exactly the configured feeds     *)
(* whose categories contain c, in configuration order, each with name and  *)
(* url; for a category no feed lists it returns the empty list, and        *)
(* fetch_category on that empty list and no scrape source returns an empty *)
(* list without raising.                                                   *)
(***************************************************************************)
C31_FeedsOfCategory ==
    Queried
    => LET at == ListedFrom(cfgFeeds, qcat, 1) IN
       /\ Len(qfeeds) = Len(at)
       /\ \A k \in 1..Len(at) :
             /\ qfeeds[k].name = Some(cfgFeeds[at[k]].name)
             /\ qfeeds[k].url = cfgFeeds[at[k]].url
       /\ (\A k \in 1..Len(cfgFeeds) : qcat \notin cfgFeeds[k].categories)
          => qfeeds = <<>> /\ qfetch = "empty"

\* after a feed was added, 'nonexistent' was asked for: no feed came back
\* and fetch_category on the empty list returned the empty list
C31_Witness ==
    /\ qcat = "nonexistent"
    /\ qfeeds = <<>>
    /\ qfetch = "empty"
    /\ Len(cfgFeeds) > Len(DefaultFeeds)

(***************************************************************************)
(* C38: a press of 'Add Feed' with current category C adds one feed for C: *)
(* get_feeds_for_category(C) has exactly one more feed than before, and no *)
(* existing feed is modified.                                              *)
(***************************************************************************)
C38_AddFeedAddsOne ==
    [][addPresses' = addPresses + 1
       => /\ Len(FeedsForCategory(cfgFeeds', CategoryValue(setCategory)))
             = Len(FeedsForCategory(cfgFeeds, CategoryValue(setCategory))) + 1
          /\ \A k \in 1..Len(cfgFeeds) :
                k <= Len(cfgFeeds') /\ cfgFeeds'[k] = cfgFeeds[k]]_vars

(***************************************************************************)
(* C32: every fetch_category call eventually returns: each per-source GET  *)
(* carries a timeout and completes, fails or times out, so the join over   *)
(* all sources ends and never waits forever on an unresponsive source.     *)
(***************************************************************************)
C32_FetchTerminates == (pc = "gathering") ~> (pc \in {"returned", "raised"})

\* the join waits on a source that never answers while another task is done
C32_Witness ==
    /\ pc = "gathering"
    /\ \E i, j \in 1..Len(tasks) : tstate[i] = "silent" /\ tstate[j] = "done"

(***************************************************************************)
(* C33: saving the articles fetched for one category never changes what    *)
(* the cache returns for another category, also when a source feeds both   *)
(* categories and yields the same article id for both.                     *)
(***************************************************************************)
C33_SaveKeepsOtherCategories ==
    [][\A i \in 1..Len(loads) :
          InSave(i) /\ Len(loads') = Len(loads) /\ loads'[i].idx = loads[i].idx + 1
          => \A X \in Categories \ {loads[i].category} :
                GetArticles(rtable', LoadArgs(X), now)
                = GetArticles(rtable, LoadArgs(X), now)]_vars

(***************************************************************************)
(* C35: save_articles is all-or-nothing per batch: when it raised, none of *)
(* the batch's articles is visible to a later read, and no later cache     *)
(* operation (such as the commit of mark_as_read) makes them persistent.   *)
(***************************************************************************)
C35_SaveAllOrNothing ==
    spc = "raised"
    => /\ \A r \in sconn : ~(\E k \in 1..Len(sbatch) : r.id = sbatch[k].id)
                           \/ \E b \in sbefore : b.id = r.id
       /\ \A r \in sdisk : ~(\E k \in 1..Len(sbatch) : r.id = sbatch[k].id)
                           \/ \E b \in sbefore : b.id = r.id

(***************************************************************************)
(* C37: the CSS selector of a scrape task is the first value of the        *)
(* source's 'selectors' mapping when that is a mapping, and the string     *)
(* itself when it is a string.                                             *)
(***************************************************************************)
C37_FirstSelectorValue ==
    pc # "idle"
    => \A k \in 1..Len(scraping) : \A i \in 1..Len(tasks) :
          tasks[i].kind = "scrape" /\ tasks[i].url = scraping[k].url
          => /\ scraping[k].selectors.type = "dict"
                => tasks[i].selector = scraping[k].selectors.items[1][2]
             /\ scraping[k].selectors.type = "str"
                => tasks[i].selector = scraping[k].selectors.str

(***************************************************************************)
(* Vocabulary of the key and button properties                             *)
(***************************************************************************)
\* the last event was a refresh, a back-from-detail or a return from
\* settings, and its handler reloaded
Reloaded ==
    /\ loadStarted
    /\ event.id \in {"refresh-btn", "r", "escape", "backspace", "back-btn"}

(***************************************************************************)
(* C34: the app reloads the category the user is viewing: when a refresh,  *)
(* a back-from-detail or a return from settings reloads, it reloads the    *)
(* category the user selected last, which state.current_category holds.    *)
(***************************************************************************)
C34_ReloadsViewedCategory ==
    Reloaded => state_category = viewing /\ loadArg = <<viewing>>

(***************************************************************************)
(* C36: while current_view is 'settings' no key press starts               *)
(* _load_category, whatever article_view_mode was when settings opened.    *)
(***************************************************************************)
C36_NoLoadFromSettings ==
    [][current_view = "settings" /\ event'.kind = "key"
       => ~loadStarted' /\ updates' = updates]_vars

====
